---- MODULE Spec2Model ----
(***************************************************************************)
(* Fair matchup scheduling engine of badminton-matchups.                   *)
(*                                                                         *)
(*  - MatchupGenerator (matchup_generator.py): the persistent-history      *)
(*    generator with its cumulative scoring (Policy A), generate_matchup,  *)
(*    generate_session and reset_history.                                  *)
(*  - get_recommendations (app.py): the live recommender with its          *)
(*    session-local scoring (Policy B), single-court exclusion/backfill    *)
(*    and the dual-court shuffle.                                          *)
(*                                                                         *)
(* Player names are modelled by positive integers; the order of integers   *)
(* stands for the order of the name strings (sorted(), tuple comparison).  *)
(***************************************************************************)
EXTENDS Integers, Sequences, FiniteSets, TLC

\* ------------------------------------------------------------------------
\* Bounds of the model
\* ------------------------------------------------------------------------
\* Largest player list handed to MatchupGenerator.
MaxPlayers == 6
\* Largest number of rounds applied to one history before it is cleared.
MaxRounds == 6

\* Largest partnership count of a history written into a generator of four.
MaxPartnered == 2
\* Most active players of the single-court rosters.
MaxActive == 5
\* Most active players of the dual-court rosters.
MaxDualPool == 9
\* Number of request threads of the server.
MaxThreads == 2
\* Largest number of matches on file when record_match is called.
MaxRecorded == 2
\* Number of names a history counts (at least MaxPlayers).
MaxNames == 7
\* Rounds played before the scores of two candidates are compared.
ScoreRounds == 10
\* Largest number of times the same round is recorded in a history.
MaxRepeats == 170
\* Largest game number handed out by the step-by-step record_match.
MaxGameNumber == 3
\* Last second of the clock.
MaxClock == 1
\* Last day of the calendar: the clock passes midnight until this day.
MaxDay == 3
\* Matches recorded in a session in which every best pick is played.
LiveRounds == 16

VARIABLES
    gen,                \* "none" | "ready" | "error": outcome of MatchupGenerator(players)
    players,            \* self.players
    partnership_count,  \* self.partnership_count
    opponent_count,     \* self.opponent_count
    sitout_count,       \* self.sitout_count
    last_matchup,       \* value returned, when the last call was generate_matchup
    last_session,       \* list returned, when the last call was generate_session
    last_call,          \* the last call made on the generator, with its arguments
    applied,            \* matchups applied to the history since it was last empty
    wiped,              \* the last call was a reset_history that found rounds in the history
    scored,             \* two candidates given to _score_matchup, with their scores
    session_players,    \* session_state['players']: the roster, [name, active]
    next_game_number,   \* session_state['next_game_number']
    matches,            \* matches.json
    sessions,           \* sessions.json: session id -> session
    today,              \* the local date, a day number
    now,                \* the local time, in seconds
    request,            \* the recommendation request being answered
    response,           \* the response of get_recommendations
    candidates,         \* the list of a direct call of a selection procedure
    picked,             \* result of a direct generate_matchup_for_players call
    threads             \* the server threads inside get_recommendations: position and locals

genVars == <<gen, players, partnership_count, opponent_count, sitout_count,
             last_matchup, last_session, last_call, applied, wiped, scored>>

recVars == <<session_players, next_game_number, matches, sessions, today, now, request,
             response, candidates, picked, threads>>

vars == <<genVars, recVars>>

\* ------------------------------------------------------------------------
\* Helpers on sequences
\* ------------------------------------------------------------------------
Range(s) == {s[i] : i \in DOMAIN s}

IsInjective(s) == \A i, j \in DOMAIN s : i # j => s[i] # s[j]

\* Python's None / an empty list.
None == <<>>

RECURSIVE PairsFrom(_, _, _)
PairsFrom(s, i, j) ==
    IF i >= Len(s) THEN <<>>
    ELSE IF j > Len(s) THEN PairsFrom(s, i + 1, i + 2)
    ELSE <<(<<s[i], s[j]>>)>> \o PairsFrom(s, i, j + 1)

\* list(itertools.combinations(s, 2)): pairs by increasing positions.
Combinations2(s) == PairsFrom(s, 1, 2)

\* (mutation: the players of team1 are not removed)
MutWithout(s, team) == s

\* [p for p in s if p not in team]
Without(s, team) == SelectSeq(s, LAMBDA p : p # team[1] /\ p # team[2])

\* ------------------------------------------------------------------------
\* MatchupGenerator: history and scoring (Policy A)
\* ------------------------------------------------------------------------
SITOUT_WEIGHT == 100
PARTNERSHIP_WEIGHT == 5
OPPONENT_WEIGHT == 1

Names == 1..MaxNames

\* Every key a pair of names can produce.
PairKeys == {k \in Names \X Names : k[1] <= k[2]}

\* defaultdict(int): every key reads 0 until it is incremented.
EmptyPairCount == [k \in PairKeys |-> 0]
EmptyPlayerCount == [p \in Names |-> 0]

\* The three counters of one generator.
History(pc, oc, sc) == [partnership_count |-> pc, opponent_count |-> oc, sitout_count |-> sc]

EmptyHistory == History(EmptyPairCount, EmptyPairCount, EmptyPlayerCount)

\* tuple(sorted([player1, player2]))
GetPairKey(player1, player2) ==
    IF player1 <= player2 THEN <<player1, player2>> ELSE <<player2, player1>>

RECURSIVE SumOver(_, _)
SumOver(f, S) ==
    IF S = {} THEN 0
    ELSE LET x == CHOOSE y \in S : TRUE IN f[x] + SumOver(f, S \ {x})

\* (mutation: no penalty for sitting out again)
MutSitoutPenalty(c) == 0

\* Penalty of letting a player with this sit-out count sit out again.
SitoutPenalty(c) ==
    IF c = 0 THEN 0
    ELSE IF c = 1 THEN 10
    ELSE 50 * (c - 1)

PlayingPlayers(team1, team2) == {team1[1], team1[2], team2[1], team2[2]}

\* (mutation: the second player of team2 is counted as sitting out)
MutSittingPlayers(ps, team1, team2) == Range(ps) \ {team1[1], team1[2], team2[1]}

SittingPlayers(ps, team1, team2) == Range(ps) \ PlayingPlayers(team1, team2)

\* (mutation: only the partnership of team1 is counted)
MutPartnershipScore(h, team1, team2) ==
    h.partnership_count[GetPairKey(team1[1], team1[2])]

PartnershipScore(h, team1, team2) ==
    h.partnership_count[GetPairKey(team1[1], team1[2])]
    + h.partnership_count[GetPairKey(team2[1], team2[2])]

\* (mutation: the pair (p2, p3) is counted twice and (p2, p4) not at all)
MutOpponentScore(h, team1, team2) ==
    h.opponent_count[GetPairKey(team1[1], team2[1])]
    + h.opponent_count[GetPairKey(team1[1], team2[2])]
    + h.opponent_count[GetPairKey(team1[2], team2[1])]
    + h.opponent_count[GetPairKey(team1[2], team2[1])]

OpponentScore(h, team1, team2) ==
    h.opponent_count[GetPairKey(team1[1], team2[1])]
    + h.opponent_count[GetPairKey(team1[1], team2[2])]
    + h.opponent_count[GetPairKey(team1[2], team2[1])]
    + h.opponent_count[GetPairKey(team1[2], team2[2])]

SitoutScore(h, ps, team1, team2) ==
    SumOver([p \in Names |-> SitoutPenalty(h.sitout_count[p])],
            SittingPlayers(ps, team1, team2))

\* (mutation: the score only tells whether both teams have played together
\* before, not how often)
MutScoreMatchup(h, ps, team1, team2) ==
    IF PartnershipScore(h, team1, team2) >= 2 THEN 2 ELSE PartnershipScore(h, team1, team2)

\* _score_matchup(team1, team2): the weighted sum of the three penalties.
ScoreMatchup(h, ps, team1, team2) ==
    SitoutScore(h, ps, team1, team2) * SITOUT_WEIGHT
    + PartnershipScore(h, team1, team2) * PARTNERSHIP_WEIGHT
    + OpponentScore(h, team1, team2) * OPPONENT_WEIGHT

\* f with the count of every key of the list ks incremented, one += 1 per entry.
RECURSIVE Bump(_, _)
Bump(f, ks) ==
    IF ks = <<>> THEN f
    ELSE Bump([f EXCEPT ![Head(ks)] = @ + 1], Tail(ks))

\* (mutation: the opponent count of the pair (p2, p4) is not incremented)
MutUpdateHistory(h, ps, team1, team2) ==
    [partnership_count |->
        Bump(h.partnership_count,
             <<GetPairKey(team1[1], team1[2]), GetPairKey(team2[1], team2[2])>>),
     opponent_count |->
        Bump(h.opponent_count,
             <<GetPairKey(team1[1], team2[1]), GetPairKey(team1[1], team2[2]),
               GetPairKey(team1[2], team2[1])>>),
     sitout_count |->
        [p \in Names |->
            IF p \in SittingPlayers(ps, team1, team2)
            THEN h.sitout_count[p] + 1 ELSE h.sitout_count[p]] \o <<>>]

UpdateHistory(h, ps, team1, team2) ==
    [partnership_count |->
        Bump(h.partnership_count,
             <<GetPairKey(team1[1], team1[2]), GetPairKey(team2[1], team2[2])>>),
     opponent_count |->
        Bump(h.opponent_count,
             <<GetPairKey(team1[1], team2[1]), GetPairKey(team1[1], team2[2]),
               GetPairKey(team1[2], team2[1]), GetPairKey(team1[2], team2[2])>>),
     sitout_count |->
        [p \in Names |->
            IF p \in SittingPlayers(ps, team1, team2)
            THEN h.sitout_count[p] + 1 ELSE h.sitout_count[p]] \o <<>>]

\* ------------------------------------------------------------------------
\* MatchupGenerator.generate_matchup
\* ------------------------------------------------------------------------
\* The best matchup so far and its score; best_score starts at float('inf').
NoBest == [inf |-> TRUE, best_score |-> 0, best_matchup |-> None]

\* best_score = score; best_matchup = (team1, team2)
NewBest(score, team1, team2) ==
    [inf |-> FALSE, best_score |-> score, best_matchup |-> <<team1, team2>>]

\* for team2 in itertools.combinations(remaining_players, 2):
\*     score = self._score_matchup(team1, team2)
\*     if score < best_score: ...
RECURSIVE ScanTeam2(_, _, _, _, _, _)
ScanTeam2(h, ps, team1, teams2, j, best) ==
    IF j > Len(teams2) THEN best
    ELSE IF best.inf \/ ScoreMatchup(h, ps, team1, teams2[j]) < best.best_score
    THEN ScanTeam2(h, ps, team1, teams2, j + 1,
                   NewBest(ScoreMatchup(h, ps, team1, teams2[j]), team1, teams2[j]))
    ELSE ScanTeam2(h, ps, team1, teams2, j + 1, best)

\* for team1 in all_teams: remaining_players = [...]; for team2 in ...
RECURSIVE ScanTeam1(_, _, _, _, _)
ScanTeam1(h, ps, all_teams, i, best) ==
    IF i > Len(all_teams) THEN best
    ELSE ScanTeam1(h, ps, all_teams, i + 1,
                   ScanTeam2(h, ps, all_teams[i],
                             Combinations2(Without(ps, all_teams[i])), 1, best))

\* (mutation: team2 is taken only from the teams that come after team1 in
\* all_teams)
RECURSIVE MutScoredFrom(_, _, _)
MutScoredFrom(ps, all_teams, i) ==
    IF i > Len(all_teams) THEN <<>>
    ELSE LET teams2 == SelectSeq(Combinations2(Without(ps, all_teams[i])),
                                 LAMBDA t : \E j \in (i + 1)..Len(all_teams) :
                                                all_teams[j] = t)
         IN  [j \in 1..Len(teams2) |-> <<all_teams[i], teams2[j]>>]
             \o MutScoredFrom(ps, all_teams, i + 1)

MutScoredMatchups(ps) == MutScoredFrom(ps, Combinations2(ps), 1)

\* The pairs (team1, team2) the loops of generate_matchup hand to
\* _score_matchup from the i-th team1 on, in order.
RECURSIVE ScoredFrom(_, _, _)
ScoredFrom(ps, all_teams, i) ==
    IF i > Len(all_teams) THEN <<>>
    ELSE LET teams2 == Combinations2(Without(ps, all_teams[i]))
         IN  [j \in 1..Len(teams2) |-> <<all_teams[i], teams2[j]>>]
             \o ScoredFrom(ps, all_teams, i + 1)

\* Every call of _score_matchup made by one generate_matchup on players ps.
ScoredMatchups(ps) == ScoredFrom(ps, Combinations2(ps), 1)

\* (mutation: the first team of all_teams is not tried as team1)
MutBestMatchup(h, ps) == ScanTeam1(h, ps, Combinations2(ps), 2, NoBest).best_matchup

\* best_matchup after the loops (None when nothing was scored).
BestMatchup(h, ps) == ScanTeam1(h, ps, Combinations2(ps), 1, NoBest).best_matchup

\* if best_matchup: self._update_history(...); return best_matchup
ApplyMatchup(h, ps, best_matchup) ==
    [matchup |-> best_matchup,
     history |-> IF best_matchup # None
                 THEN UpdateHistory(h, ps, best_matchup[1], best_matchup[2])
                 ELSE h]

\* generate_matchup as a function of the history: the value returned and the
\* history left behind.
GenerateMatchupOp(h, ps) == ApplyMatchup(h, ps, BestMatchup(h, ps))

\* ------------------------------------------------------------------------
\* Binary floating point (Python float: IEEE 754 double, round to nearest,
\* ties to even) for the arithmetic of generate_session.  A positive double
\* is [mant, exp]: mant the integer of its MantBits significant bits, exp the
\* power of two of the first of them (the value is mant * 2^(exp-MantBits+1));
\* zero has mant = <<>>.  Integers too wide for one machine word are written
\* in digits of LimbBits bits (limbs), most significant first.
\* ------------------------------------------------------------------------
MantBits == 53
LimbBits == 15

LimbBase == 2^LimbBits

\* Limbs added below the dividend before a division (guard digits).
PadLimbs == 5

RECURSIVE ZeroLimbs(_)
ZeroLimbs(k) == IF k <= 0 THEN <<>> ELSE <<0>> \o ZeroLimbs(k - 1)

\* The limbs of a natural number (<<>> for 0).
RECURSIVE IntToLimbs(_)
IntToLimbs(n) ==
    IF n = 0 THEN <<>> ELSE Append(IntToLimbs(n \div LimbBase), n % LimbBase)

\* The natural number of a short limb string.
RECURSIVE LimbsToInt(_)
LimbsToInt(b) ==
    IF b = <<>> THEN 0
    ELSE LimbsToInt(SubSeq(b, 1, Len(b) - 1)) * LimbBase + b[Len(b)]

\* The limb string without its leading zero limbs.
StripZeroLimbs(b) ==
    IF \A i \in 1..Len(b) : b[i] = 0 THEN <<>>
    ELSE LET first == CHOOSE i \in 1..Len(b) : b[i] # 0 /\ \A j \in 1..(i - 1) : b[j] = 0
         IN SubSeq(b, first, Len(b))

RECURSIVE BitLen(_)
BitLen(n) == IF n = 0 THEN 0 ELSE 1 + BitLen(n \div 2)

\* Number of significant bits of a limb string without leading zero limbs.
LimbsBitLen(b) == IF b = <<>> THEN 0 ELSE LimbBits * (Len(b) - 1) + BitLen(b[1])

\* Long division of a limb string by a small positive integer, limb by limb.
RECURSIVE LimbDiv(_, _, _, _, _)
LimbDiv(b, q, i, r, quot) ==
    IF i > Len(b) THEN [quot |-> quot, rem |-> r]
    ELSE LimbDiv(b, q, i + 1, (r * LimbBase + b[i]) % q,
                 Append(quot, (r * LimbBase + b[i]) \div q))

\* Product of a limb string and a small positive integer.
RECURSIVE LimbMul(_, _, _, _, _)
LimbMul(b, k, i, carry, out) ==
    IF i = 0 THEN IntToLimbs(carry) \o out
    ELSE LimbMul(b, k, i - 1, (b[i] * k + carry) \div LimbBase,
                 <<(b[i] * k + carry) % LimbBase>> \o out)

\* b + 1.
LimbIncrement(b) ==
    IF \A i \in 1..Len(b) : b[i] = LimbBase - 1 THEN <<1>> \o ZeroLimbs(Len(b))
    ELSE LET last == CHOOSE i \in 1..Len(b) :
                        b[i] # LimbBase - 1 /\ \A j \in (i + 1)..Len(b) : b[j] = LimbBase - 1
         IN SubSeq(b, 1, last - 1) \o <<b[last] + 1>> \o ZeroLimbs(Len(b) - last)

\* floor(b / 2^n), and whether no bit set was shifted out.
ShiftRight(b, n) ==
    LET drop == n \div LimbBits
        d    == LimbDiv(SubSeq(b, 1, Len(b) - drop), 2^(n % LimbBits), 1, 0, <<>>)
    IN [quot  |-> d.quot,
        exact |-> d.rem = 0 /\ \A i \in (Len(b) - drop + 1)..Len(b) : b[i] = 0]

FloatZero == [mant |-> <<>>, exp |-> 0]

\* The double nearest to (n / q) * 2^s, n a limb string, 0 < q < 2^8.
RoundDiv(n, q, s) ==
    IF StripZeroLimbs(n) = <<>> THEN FloatZero
    ELSE LET d    == LimbDiv(n \o ZeroLimbs(PadLimbs), q, 1, 0, <<>>)
             sig  == StripZeroLimbs(d.quot)
             len  == LimbsBitLen(sig)
             \* the first MantBits + 1 bits: the mantissa and the guard bit
             sh   == ShiftRight(sig, len - (MantBits + 1))
             half == LimbDiv(sh.quot, 2, 1, 0, <<>>)
             mant == StripZeroLimbs(half.quot)
             sticky == ~sh.exact \/ d.rem # 0
             up   == half.rem = 1 /\ (sticky \/ mant[Len(mant)] % 2 = 1)
             inc  == LimbIncrement(mant)
             e    == len - 1 + s - PadLimbs * LimbBits
         IN IF ~up THEN [mant |-> mant, exp |-> e]
            ELSE IF LimbsBitLen(inc) > MantBits
            THEN [mant |-> <<2^((MantBits - 1) % LimbBits)>>
                           \o ZeroLimbs((MantBits - 1) \div LimbBits),
                  exp |-> e + 1]
            ELSE [mant |-> inc, exp |-> e]

\* float(a) / b for small naturals a, b > 0 (a duration of a minutes in hours
\* is FloatOfRatio(a, 60)).
FloatOfRatio(a, b) == RoundDiv(IntToLimbs(a), b, 0)

\* x * k and x / k for a double x and a small positive integer k.
FloatMul(x, k) ==
    IF x = FloatZero THEN FloatZero
    ELSE RoundDiv(LimbMul(x.mant, k, Len(x.mant), 0, <<>>), 1, x.exp - (MantBits - 1))

FloatDiv(x, k) ==
    IF x = FloatZero THEN FloatZero
    ELSE RoundDiv(x.mant, k, x.exp - (MantBits - 1))

\* int(x) for a double 0 <= x < 2^31.
FloatToInt(x) ==
    IF x = FloatZero \/ x.exp < 0 THEN 0
    ELSE LimbsToInt(StripZeroLimbs(ShiftRight(x.mant, MantBits - 1 - x.exp).quot))

\* ------------------------------------------------------------------------
\* MatchupGenerator.generate_session
\* ------------------------------------------------------------------------
\* total_minutes = duration_hours * 60
TotalMinutes(duration_hours) == FloatMul(duration_hours, 60)

\* num_games = int(total_minutes / minutes_per_game)
NumGames(duration_hours, minutes_per_game) ==
    FloatToInt(FloatDiv(TotalMinutes(duration_hours), minutes_per_game))

\* One entry of the returned list.
SessionEntry(game_num, matchup, minutes_per_game) ==
    [game_number |-> game_num,
     team1 |-> matchup[1],
     team2 |-> matchup[2],
     estimated_start_time |-> (game_num - 1) * minutes_per_game]

\* The for loop over game_num = 1..num_games; every iteration calls
\* generate_matchup on the history the previous one left and appends an entry.
RECURSIVE SessionLoop(_, _, _, _, _, _)
RECURSIVE SessionStep(_, _, _, _, _, _)
SessionLoop(h, ps, game_num, num_games, minutes_per_game, matchups) ==
    IF game_num > num_games THEN [matchups |-> matchups, history |-> h]
    ELSE SessionStep(ps, game_num, num_games, minutes_per_game, matchups,
                     GenerateMatchupOp(h, ps))

\* (mutation: the next round is selected on a history without this round)
MutSessionStep(ps, game_num, num_games, minutes_per_game, matchups, g) ==
    SessionLoop(EmptyHistory, ps, game_num + 1, num_games, minutes_per_game,
                Append(matchups, SessionEntry(game_num, g.matchup, minutes_per_game)))

SessionStep(ps, game_num, num_games, minutes_per_game, matchups, g) ==
    SessionLoop(g.history, ps, game_num + 1, num_games, minutes_per_game,
                Append(matchups, SessionEntry(game_num, g.matchup, minutes_per_game)))

\* The body of generate_session once num_games is known.
GenerateSessionOp(h, ps, num_games, minutes_per_game) ==
    SessionLoop(h, ps, 1, num_games, minutes_per_game, <<>>)

\* ------------------------------------------------------------------------
\* The generator as a state machine
\* ------------------------------------------------------------------------
\* Player lists handed to the constructor: n distinct names.  Only the
\* relative order of names matters, so the names are 1..n: every order of up
\* to AllOrders names, and for longer lists the sorted list, the reversed
\* list and their rotations.
AllOrders == 4

ListOrders(n) == {ps \in [1..n -> 1..n] : IsInjective(ps)}

Rotations(n) ==
    {[i \in 1..n |-> ((i + k - 1) % n) + 1] : k \in 0..(n - 1)}
    \cup {[i \in 1..n |-> n - ((i + k - 1) % n)] : k \in 0..(n - 1)}

PlayerLists ==
    UNION {IF n <= AllOrders THEN ListOrders(n) ELSE Rotations(n) : n \in 0..MaxPlayers}

\* Session lengths in whole minutes and minutes per game of generate_session.
SessionMinutes == {45, 123, 240}
MinutesPerGame == {15, 41}

\* num_games of every session request of the model (computed once).
NumGamesTable ==
    {<<minutes, minutes_per_game, NumGames(FloatOfRatio(minutes, 60), minutes_per_game)>> :
        minutes \in SessionMinutes, minutes_per_game \in MinutesPerGame}

NumGamesOf(minutes, minutes_per_game) ==
    (CHOOSE t \in NumGamesTable : t[1] = minutes /\ t[2] = minutes_per_game)[3]

\* A call on the generator: the operation and its arguments (the list for the
\* constructor, the session length in minutes and the minutes per game for
\* generate_session).
Call(op, ps, minutes, minutes_per_game) ==
    [op |-> op, players |-> ps, minutes |-> minutes, minutes_per_game |-> minutes_per_game]

CurrentHistory == History(partnership_count, opponent_count, sitout_count)

\* The team pairs of a list returned by generate_session.
SessionMatchups(session) ==
    [i \in 1..Len(session) |-> <<session[i].team1, session[i].team2>>]

\* (mutation: three players are accepted)
MutConstruct(ps) ==
    /\ gen = "none"
    /\ IF Len(ps) < 3
       THEN /\ gen' = "error"
            /\ UNCHANGED <<players, partnership_count, opponent_count, sitout_count>>
       ELSE /\ gen' = "ready"
            /\ players' = ps
            /\ partnership_count' = EmptyPairCount
            /\ opponent_count' = EmptyPairCount
            /\ sitout_count' = EmptyPlayerCount
    /\ last_call' = Call("init", ps, 0, 0)
    /\ UNCHANGED <<last_matchup, last_session, applied, wiped, scored>>
    /\ UNCHANGED recVars

\* MatchupGenerator(ps)
Construct(ps) ==
    /\ gen = "none"
    /\ IF Len(ps) < 4
       THEN /\ gen' = "error"      \* ValueError: no generator is created
            /\ UNCHANGED <<players, partnership_count, opponent_count, sitout_count>>
       ELSE /\ gen' = "ready"
            /\ players' = ps
            /\ partnership_count' = EmptyPairCount
            /\ opponent_count' = EmptyPairCount
            /\ sitout_count' = EmptyPlayerCount
    /\ last_call' = Call("init", ps, 0, 0)
    /\ UNCHANGED <<last_matchup, last_session, applied, wiped, scored>>
    /\ UNCHANGED recVars

SetHistory(h) ==
    /\ partnership_count' = h.partnership_count
    /\ opponent_count' = h.opponent_count
    /\ sitout_count' = h.sitout_count

GenerateMatchupResult(g) ==
    /\ SetHistory(g.history)
    /\ last_matchup' = g.matchup
    /\ applied' = IF g.matchup # None THEN Append(applied, g.matchup) ELSE applied

\* The fairness test: a session of 16 rounds (4 hours at 15 minutes) on 4
\* players, partner counts at most 3 apart.
FairnessRounds == 16
FairnessSpread == 3

\* Rounds explored from an empty history: MaxRounds, and the session of the
\* fairness test when 4 players start one on an empty history.
RoundLimit ==
    IF Len(players) = 4 /\ applied = <<>> THEN FairnessRounds ELSE MaxRounds

\* generator.generate_matchup()
GenerateMatchup ==
    /\ gen = "ready"
    /\ Len(applied) < MaxRounds
    /\ GenerateMatchupResult(GenerateMatchupOp(CurrentHistory, players))
    /\ last_session' = <<>>
    /\ last_call' = Call("generate_matchup", <<>>, 0, 0)
    /\ wiped' = FALSE
    /\ UNCHANGED scored
    /\ UNCHANGED <<gen, players>>
    /\ UNCHANGED recVars

GenerateSessionResult(r) ==
    /\ SetHistory(r.history)
    /\ last_session' = r.matchups
    /\ applied' = applied \o SessionMatchups(r.matchups)

\* generator.generate_session(minutes / 60, minutes_per_game)
GenerateSession(minutes, minutes_per_game) ==
    /\ gen = "ready"
    /\ Len(applied) + NumGamesOf(minutes, minutes_per_game) <= RoundLimit
    /\ GenerateSessionResult(
           GenerateSessionOp(CurrentHistory, players,
                             NumGamesOf(minutes, minutes_per_game), minutes_per_game))
    /\ last_matchup' = None
    /\ last_call' = Call("generate_session", <<>>, minutes, minutes_per_game)
    /\ wiped' = FALSE
    /\ UNCHANGED scored
    /\ UNCHANGED <<gen, players>>
    /\ UNCHANGED recVars

\* (mutation: the sit-out counters are not cleared)
MutResetHistory ==
    /\ gen = "ready"
    /\ partnership_count' = EmptyPairCount
    /\ opponent_count' = EmptyPairCount
    /\ applied' = <<>>
    /\ wiped' = (applied # <<>>)
    /\ last_matchup' = None
    /\ last_session' = <<>>
    /\ last_call' = Call("reset_history", <<>>, 0, 0)
    /\ UNCHANGED <<gen, players, sitout_count, scored>>
    /\ UNCHANGED recVars

\* generator.reset_history()
ResetHistory ==
    /\ gen = "ready"
    /\ partnership_count' = EmptyPairCount
    /\ opponent_count' = EmptyPairCount
    /\ sitout_count' = EmptyPlayerCount
    /\ applied' = <<>>
    /\ wiped' = (applied # <<>>)
    /\ last_matchup' = None
    /\ last_session' = <<>>
    /\ last_call' = Call("reset_history", <<>>, 0, 0)
    /\ UNCHANGED <<gen, players, scored>>
    /\ UNCHANGED recVars

\* n successive select-then-record steps (generate_matchup calls) from the
\* history h: the matchups selected and the history left.
RECURSIVE StepwiseRounds(_, _, _, _)
RECURSIVE StepwiseNext(_, _, _, _)
StepwiseRounds(h, ps, n, acc) ==
    IF n = 0 THEN [matchups |-> acc, history |-> h]
    ELSE StepwiseNext(ps, n, acc, GenerateMatchupOp(h, ps))

StepwiseNext(ps, n, acc, g) ==
    StepwiseRounds(g.history, ps, n - 1, Append(acc, g.matchup))

NotScored == [called |-> FALSE]

\* A direct call of _score_matchup on each of two candidates, with the three
\* terms of each score as the method computes them.
ScoreTerms(h, ps, c) ==
    [team1 |-> c[1], team2 |-> c[2],
     sitout_score |-> SitoutScore(h, ps, c[1], c[2]),
     partnership_score |-> PartnershipScore(h, c[1], c[2]),
     opponent_score |-> OpponentScore(h, c[1], c[2]),
     score |-> ScoreMatchup(h, ps, c[1], c[2])]

ScoreCandidates(c1, c2) ==
    /\ gen = "ready"
    /\ scored = NotScored      \* one comparison is followed
    /\ scored' = [called |-> TRUE,
                  first |-> ScoreTerms(CurrentHistory, players, c1),
                  second |-> ScoreTerms(CurrentHistory, players, c2)]
    /\ UNCHANGED <<gen, players, partnership_count, opponent_count, sitout_count,
                   last_matchup, last_session, last_call, applied, wiped>>
    /\ UNCHANGED recVars

NextGen ==
    \/ \E ps \in PlayerLists : Construct(ps)
    \/ GenerateMatchup
    \/ \E minutes \in SessionMinutes, minutes_per_game \in MinutesPerGame :
          GenerateSession(minutes, minutes_per_game)
    \/ ResetHistory

\* ------------------------------------------------------------------------
\* The live recommender: get_recommendations (app.py) over the roster of
\* session_state and the matches and sessions of MatchStorage
\* ------------------------------------------------------------------------
\* get_active_players(): names of the roster entries flagged active, in order.
GetActivePlayers(roster) ==
    LET act == SelectSeq(roster, LAMBDA p : p.active)
    IN  [i \in 1..Len(act) |-> act[i].name] \o <<>>

\* MatchStorage._get_session_id_for_date: "session_" + the ISO date.
SessionIdForDate(d) == <<"session", d>>

\* The session record created for a date (its creation time is left out).
NewSession(d) == [session_id |-> SessionIdForDate(d), date |-> d, match_ids |-> <<>>]

\* sessions.json after _get_or_create_session_for_date_unlocked(d).
GetOrCreateSessionForDate(ss, d) ==
    IF SessionIdForDate(d) \in DOMAIN ss THEN ss
    ELSE [k \in DOMAIN ss \cup {SessionIdForDate(d)} |->
            IF k = SessionIdForDate(d) THEN NewSession(d) ELSE ss[k]]

\* (mutation: the matches of every session are returned)
MutGetSessionMatches(ss, ms, session_id) == ms

\* MatchStorage.get_session_matches(session_id)
GetSessionMatches(ss, ms, session_id) ==
    IF session_id \notin DOMAIN ss THEN <<>>
    ELSE SelectSeq(ms, LAMBDA m : m.match_id \in Range(ss[session_id].match_ids))

\* collections.Counter: a function on the keys counted so far.
EmptyCounter == <<>>

\* counter.get(key, 0)
CounterGet(counter, key) == IF key \in DOMAIN counter THEN counter[key] ELSE 0

\* counter[key] += 1
CounterAdd(counter, key) ==
    IF key \in DOMAIN counter THEN [counter EXCEPT ![key] = @ + 1]
    ELSE counter @@ (key :> 1)

Counters(pc, tg) == [partnership_counts |-> pc, total_games |-> tg]

\* One team of a session match: counted when it has two players.
CountTeam(c, team) ==
    IF Len(team) = 2
    THEN Counters(CounterAdd(c.partnership_counts, Range(team)),
                  CounterAdd(CounterAdd(c.total_games, team[1]), team[2]))
    ELSE c

\* The loop over session_matches building partnership_counts and total_games.
RECURSIVE CountMatches(_, _, _)
CountMatches(session_matches, i, c) ==
    IF i > Len(session_matches) THEN c
    ELSE CountMatches(session_matches, i + 1,
                      CountTeam(CountTeam(c, session_matches[i].team1),
                                session_matches[i].team2))

\* (mutation: the first players of the two teams are counted as a team too)
MutSessionCounters(session_matches) ==
    CountMatches(session_matches
                 \o [i \in 1..Len(session_matches) |->
                        [team1 |-> <<session_matches[i].team1[1], session_matches[i].team2[1]>>,
                         team2 |-> <<>>]],
                 1, Counters(EmptyCounter, EmptyCounter))

SessionCounters(session_matches) ==
    CountMatches(session_matches, 1, Counters(EmptyCounter, EmptyCounter))

\* set(exclude_ids.split(',')) if exclude_ids else set(); the parameter is
\* modelled by the list of the names it holds.
ExcludedPlayers(exclude_ids) == Range(exclude_ids)

\* players_with_games.sort(key=games): the stable sort of the active players
\* by games played, ascending.
SortByGames(all_active, tg) ==
    LET n == Len(all_active)
        Before(j, i) ==
            \/ CounterGet(tg, all_active[j]) < CounterGet(tg, all_active[i])
            \/ CounterGet(tg, all_active[j]) = CounterGet(tg, all_active[i]) /\ j < i
        place == {<<Cardinality({j \in 1..n : Before(j, i)}) + 1, i>> : i \in 1..n}
    IN  [k \in 1..n |-> all_active[(CHOOSE pl \in place : pl[1] = k)[2]]] \o <<>>

\* combined = non_excluded + excluded_sorted; players = [p for p, g in combined]
Backfill(all_active, excluded, tg) ==
    LET sorted == SortByGames(all_active, tg)
    IN  SelectSeq(sorted, LAMBDA p : p \notin excluded)
        \o SelectSeq(sorted, LAMBDA p : p \in excluded)

\* (mutation: the excluded players are not filtered out)
MutFilterExcluded(all_active, excluded) == all_active

\* [p for p in all_active_players if p not in excluded_players]
FilterExcluded(all_active, excluded) ==
    SelectSeq(all_active, LAMBDA p : p \notin excluded)

\* Single-court mode: the players after exclusion and backfill.
ExcludeAndBackfill(all_active, excluded, tg) ==
    IF Len(FilterExcluded(all_active, excluded)) < 4 /\ excluded # {}
    THEN Backfill(all_active, excluded, tg)
    ELSE FilterExcluded(all_active, excluded)

\* (mutation: the request fails as soon as fewer than 4 players are left
\* after the exclusion, without falling back on the excluded players)
MutSingleCourtPlayers(all_active, excluded, tg) ==
    LET ps == FilterExcluded(all_active, excluded)
    IN  [error |-> Len(ps) < 4, players |-> ps]

\* "Need at least 4 players total": the candidate list, or the error.
SingleCourtPlayers(all_active, excluded, tg) ==
    LET ps == ExcludeAndBackfill(all_active, excluded, tg)
    IN  IF Len(ps) >= 4 THEN [error |-> FALSE, players |-> ps]
        ELSE IF Len(all_active) >= 4 THEN [error |-> FALSE, players |-> all_active]
        ELSE [error |-> TRUE, players |-> ps]

\* format_count(count): the badge of a partnership count.
FormatCount(count) ==
    IF count = 0 THEN <<"new">>
    ELSE IF count = 1 THEN <<"once">>
    ELSE <<"times", count>>

\* itertools.combinations(s, k), in its order.
RECURSIVE Combinations(_, _)
Combinations(s, k) ==
    IF k = 0 THEN << <<>> >>
    ELSE IF Len(s) < k THEN <<>>
    ELSE LET with == Combinations(Tail(s), k - 1)
         IN  [i \in 1..Len(with) |-> <<Head(s)>> \o with[i]] \o Combinations(Tail(s), k)

\* The three 2v2 partitions of four players, in the order they are tried.
Partitions(p) ==
    << << <<p[1], p[2]>>, <<p[3], p[4]>> >>,
       << <<p[1], p[3]>>, <<p[2], p[4]>> >>,
       << <<p[1], p[4]>>, <<p[2], p[3]>> >> >>

\* sorted(...) of a set of names.
SortedList(S) ==
    [k \in 1..Cardinality(S) |-> CHOOSE x \in S : Cardinality({y \in S : y < x}) = k - 1] \o <<>>

Max(a, b) == IF a >= b THEN a ELSE b
Abs(a) == IF a < 0 THEN -a ELSE a

\* The lexicographic order of two lists of names.
RECURSIVE ListLess(_, _)
ListLess(a, b) ==
    IF b = <<>> THEN FALSE
    ELSE IF a = <<>> THEN TRUE
    ELSE IF Head(a) # Head(b) THEN Head(a) < Head(b)
    ELSE ListLess(Tail(a), Tail(b))

\* The order of two score tuples (worst count, total count, games balance,
\* sorted names).
\* (mutation: the balance of games played is not compared)
MutScoreLess(s, t) ==
    \/ s.worst < t.worst
    \/ s.worst = t.worst /\ s.total < t.total
    \/ s.worst = t.worst /\ s.total = t.total /\ ListLess(s.tiebreak, t.tiebreak)

ScoreLess(s, t) ==
    \/ s.worst < t.worst
    \/ s.worst = t.worst /\ s.total < t.total
    \/ s.worst = t.worst /\ s.total = t.total /\ s.games_balance < t.games_balance
    \/ s.worst = t.worst /\ s.total = t.total /\ s.games_balance = t.games_balance
       /\ ListLess(s.tiebreak, t.tiebreak)

\* (mutation: the partnership counts are left out of the score)
MutScoredMatchup(four_players, team_a, team_b, c) ==
    LET count_a == CounterGet(c.partnership_counts, Range(team_a))
        count_b == CounterGet(c.partnership_counts, Range(team_b))
        games_a == CounterGet(c.total_games, team_a[1]) + CounterGet(c.total_games, team_a[2])
        games_b == CounterGet(c.total_games, team_b[1]) + CounterGet(c.total_games, team_b[2])
    IN  [score |-> [worst |-> 0,
                    total |-> 0,
                    games_balance |-> Abs(games_a - games_b),
                    tiebreak |-> SortedList(Range(four_players))],
         team_a |-> team_a, team_b |-> team_b,
         count_a |-> count_a, count_b |-> count_b,
         players |-> Range(four_players)]

\* One scored candidate: the entry appended to all_matchups.
ScoredMatchup(four_players, team_a, team_b, c) ==
    LET count_a == CounterGet(c.partnership_counts, Range(team_a))
        count_b == CounterGet(c.partnership_counts, Range(team_b))
        games_a == CounterGet(c.total_games, team_a[1]) + CounterGet(c.total_games, team_a[2])
        games_b == CounterGet(c.total_games, team_b[1]) + CounterGet(c.total_games, team_b[2])
    IN  [score |-> [worst |-> Max(count_a, count_b),
                    total |-> count_a + count_b,
                    games_balance |-> Abs(games_a - games_b),
                    tiebreak |-> SortedList(Range(four_players))],
         team_a |-> team_a, team_b |-> team_b,
         count_a |-> count_a, count_b |-> count_b,
         players |-> Range(four_players)]

\* all_matchups: every partition of every 4-combination, in enumeration order.
AllMatchups(candidate_players, c) ==
    LET fours == Combinations(candidate_players, 4)
    IN  [k \in 1..(3 * Len(fours)) |->
            LET four == fours[((k - 1) \div 3) + 1]
                part == Partitions(four)[((k - 1) % 3) + 1]
            IN  ScoredMatchup(four, part[1], part[2], c)] \o <<>>

\* (mutation: the candidates are left in enumeration order)
MutSortPlaces(all_matchups) == {<<i, i>> : i \in 1..Len(all_matchups)}

\* all_matchups.sort(key=score): the stable sort, as the place of every entry.
SortPlaces(all_matchups) ==
    LET n == Len(all_matchups)
        Before(j, i) ==
            \/ ScoreLess(all_matchups[j].score, all_matchups[i].score)
            \/ all_matchups[j].score = all_matchups[i].score /\ j < i
    IN  {<<Cardinality({j \in 1..n : Before(j, i)}) + 1, i>> : i \in 1..n}

\* all_matchups[:limit] after the sort.
SortedFirst(all_matchups, limit) ==
    LET place == SortPlaces(all_matchups)
        n == IF Len(all_matchups) < limit THEN Len(all_matchups) ELSE limit
    IN  [k \in 1..n |-> all_matchups[(CHOOSE pl \in place : pl[1] = k)[2]]] \o <<>>

\* generate_matchup_for_players(candidate_players, partnership_counts, total_games)
GenerateMatchupForPlayers(candidate_players, c) ==
    LET all_matchups == AllMatchups(candidate_players, c)
    IN  IF all_matchups = <<>> THEN None
        ELSE SortedFirst(all_matchups, 1)[1]

\* The explanation string: both teams with the badge of their count.
Explanation(m) ==
    [team_a |-> m.team_a, count_a |-> FormatCount(m.count_a),
     team_b |-> m.team_b, count_b |-> FormatCount(m.count_b)]

\* One entry of 'recommendations'.
Recommendation(m) ==
    [team_a |-> m.team_a, team_b |-> m.team_b, explanation |-> Explanation(m)]

NoContent == [status |-> 204]
NotEnoughPlayers == [status |-> 400, error |-> "Not enough players"]

\* The single-court answer: the best matchup and the top 10 alternatives.
SingleCourtResponse(ps, c) ==
    LET best_matchup == GenerateMatchupForPlayers(ps, c)
        alternatives == SortedFirst(AllMatchups(ps, c), 10)
    IN  IF best_matchup = None THEN NoContent
        ELSE [status |-> 200,
              dual_court |-> FALSE,
              team_a |-> best_matchup.team_a,
              team_b |-> best_matchup.team_b,
              explanation |-> Explanation(best_matchup),
              player_ids |-> best_matchup.team_a \o best_matchup.team_b,
              recommendations |->
                  [k \in 1..Len(alternatives) |-> Recommendation(alternatives[k])] \o <<>>,
              current_index |-> 0]

\* One court of the dual-court answer.
Court(n, m) ==
    [court |-> n, team_a |-> m.team_a, team_b |-> m.team_b, explanation |-> Explanation(m)]

\* (mutation: the second court is picked from selected_8[3:7])
MutDualCourtResponse(selected_8, ps, c) ==
    LET first_matchup == GenerateMatchupForPlayers(SubSeq(selected_8, 1, 4), c)
        second_matchup == GenerateMatchupForPlayers(SubSeq(selected_8, 4, 7), c)
    IN  IF first_matchup = None THEN NoContent
        ELSE IF second_matchup # None
        THEN [status |-> 200,
              dual_court |-> TRUE,
              matchups |-> <<Court(1, first_matchup), Court(2, second_matchup)>>,
              player_ids |-> first_matchup.team_a \o first_matchup.team_b
                             \o second_matchup.team_a \o second_matchup.team_b,
              current_index |-> 0]
        ELSE SingleCourtResponse(ps, c)

\* The dual-court answer for the first eight players of the shuffled list.
DualCourtResponse(selected_8, ps, c) ==
    LET first_matchup == GenerateMatchupForPlayers(SubSeq(selected_8, 1, 4), c)
        second_matchup == GenerateMatchupForPlayers(SubSeq(selected_8, 5, 8), c)
    IN  IF first_matchup = None THEN NoContent
        ELSE IF second_matchup # None
        THEN [status |-> 200,
              dual_court |-> TRUE,
              matchups |-> <<Court(1, first_matchup), Court(2, second_matchup)>>,
              player_ids |-> first_matchup.team_a \o first_matchup.team_b
                             \o second_matchup.team_a \o second_matchup.team_b,
              current_index |-> 0]
        ELSE SingleCourtResponse(ps, c)

\* (mutation: dual-court mode needs more than eight players)
MutIsDualCourt(all_active) == Len(all_active) > 8

\* is_dual_court = len(all_active_players) >= 8
IsDualCourt(all_active) == Len(all_active) >= 8

\* The sets of four players of S.
Subsets4(S) == {X \in SUBSET S : Cardinality(X) = 4}

\* The four players S of one court as the shuffle leaves them: in ascending
\* order rotated by r places.
GroupOrder(S, r) ==
    LET s == SortedList(S)
    IN  <<s[(r % 4) + 1], s[((r + 1) % 4) + 1], s[((r + 2) % 4) + 1], s[((r + 3) % 4) + 1]>>

\* shuffled_players[:8] over the outcomes of random.shuffle: any four players
\* for the first court, any four of the others for the second, both groups
\* ascending or both rotated by one place.
Selected8(ps) ==
    UNION {UNION {{GroupOrder(A, r) \o GroupOrder(B, r) : r \in 0..1} :
                     B \in Subsets4(Range(ps) \ A)} :
              A \in Subsets4(Range(ps))}

\* Every response get_recommendations can return once it holds the active
\* players and the counters of the session: the mode, the exclusion, the
\* enumeration and the response built from it.
ResponsesFor(all_active, c, exclude_ids) ==
    LET single == SingleCourtPlayers(all_active, ExcludedPlayers(exclude_ids), c.total_games)
    IN  IF IsDualCourt(all_active)
        THEN {DualCourtResponse(sel, all_active, c) : sel \in Selected8(all_active)}
        ELSE IF single.error THEN {NotEnoughPlayers}
        ELSE {SingleCourtResponse(single.players, c)}

\* Every response get_recommendations can return for a roster, the sessions
\* and matches on file, the date and the exclude_ids parameter.
Responses(roster, ss, ms, d, exclude_ids) ==
    ResponsesFor(GetActivePlayers(roster),
                 SessionCounters(GetSessionMatches(ss, ms, SessionIdForDate(d))),
                 exclude_ids)

NoRequest == [exclude_ids |-> <<>>, pending |-> FALSE]
NoResponse == [status |-> 0]
NotCalled == [called |-> FALSE, matchup |-> None]

\* GET /api/recommendations?exclude_ids=...: today's session is fetched (and
\* created when missing) before anything else, then the answer is computed.
GetRecommendations(exclude_ids) ==
    /\ response = NoResponse
    /\ sessions' = GetOrCreateSessionForDate(sessions, today)
    /\ request' = [exclude_ids |-> exclude_ids, pending |-> TRUE]
    /\ response' \in Responses(session_players, sessions', matches, today, exclude_ids)
    /\ UNCHANGED <<session_players, next_game_number, matches, today, now, candidates, picked,
                   threads>>
    /\ UNCHANGED genVars

\* The response is returned to the caller; the next request can be made.
ReturnResponse ==
    /\ response # NoResponse
    /\ request' = NoRequest
    /\ response' = NoResponse
    /\ UNCHANGED <<session_players, next_game_number, matches, sessions, today, now,
                   candidates, picked, threads>>
    /\ UNCHANGED genVars

\* The server threads; a thread outside get_recommendations is idle.
Threads == 1..MaxThreads

IdleThread == [pc |-> "idle"]

\* all_active_players = get_active_players(): a thread enters the handler
\* (nothing is acquired on entry) and reads the roster.
ReadActivePlayers(t, exclude_ids) ==
    /\ threads[t] = IdleThread
    /\ threads' = [threads EXCEPT ![t] =
                      [pc |-> "get_current_session", exclude_ids |-> exclude_ids,
                       all_active |-> GetActivePlayers(session_players)]]
    /\ UNCHANGED <<session_players, next_game_number, matches, sessions, today, now,
                   request, response, candidates, picked>>
    /\ UNCHANGED genVars

\* current_session = storage.get_current_session(): storage.lock is held for
\* the lookup and the creation of today's session, and released.
GetCurrentSession(t) ==
    /\ threads[t].pc = "get_current_session"
    /\ sessions' = GetOrCreateSessionForDate(sessions, today)
    /\ threads' = [threads EXCEPT ![t] =
                      [pc |-> "get_session_matches", exclude_ids |-> @.exclude_ids,
                       all_active |-> @.all_active,
                       session_id |-> SessionIdForDate(today)]]
    /\ UNCHANGED <<session_players, next_game_number, matches, today, now,
                   request, response, candidates, picked>>
    /\ UNCHANGED genVars

\* session_matches = storage.get_session_matches(...) and the loop over it
\* into partnership_counts and total_games.
ReadSessionMatches(t) ==
    /\ threads[t].pc = "get_session_matches"
    /\ threads' = [threads EXCEPT ![t] =
                      [pc |-> "enumerate", exclude_ids |-> @.exclude_ids,
                       all_active |-> @.all_active,
                       counters |-> SessionCounters(
                           GetSessionMatches(sessions, matches, @.session_id))]]
    /\ UNCHANGED <<session_players, next_game_number, matches, sessions, today, now,
                   request, response, candidates, picked>>
    /\ UNCHANGED genVars

\* The mode, the exclusion, the enumeration and the response, from the
\* values the thread has read.
Enumerate(t) ==
    /\ threads[t].pc = "enumerate"
    /\ \E r \in ResponsesFor(threads[t].all_active, threads[t].counters,
                              threads[t].exclude_ids) :
           threads' = [threads EXCEPT ![t] = [pc |-> "emit", response |-> r]]
    /\ UNCHANGED <<session_players, next_game_number, matches, sessions, today, now,
                   request, response, candidates, picked>>
    /\ UNCHANGED genVars

\* return jsonify(...): the thread leaves the handler.
Emit(t) ==
    /\ threads[t].pc = "emit"
    /\ threads' = [threads EXCEPT ![t] = IdleThread]
    /\ UNCHANGED <<session_players, next_game_number, matches, sessions, today, now,
                   request, response, candidates, picked>>
    /\ UNCHANGED genVars

\* JSON values of a request body: null, a string, a number, a list of names.
JsonNull == [kind |-> "null", items |-> <<>>, value |-> 0]
JsonString == [kind |-> "str", items |-> <<>>, value |-> 0]
JsonInt(n) == [kind |-> "int", items |-> <<>>, value |-> n]
JsonList(names) == [kind |-> "list", items |-> names, value |-> 0]

\* not x, for a team of the request body: None and the empty list are falsy
\* (the strings of the model are non-empty).
Falsy(x) == x.kind = "null" \/ (x.kind = "list" /\ x.items = <<>>)

\* int(x) fails on None and on a string that is not a number.
IsIntLike(x) == x.kind = "int"

\* The record save_match appends to matches.json (its 'timestamp' field is
\* left out).
MatchRecord(match_id, session_id, match_data) ==
    [match_id |-> match_id, session_id |-> session_id,
     game_number |-> match_data.game_number,
     team1 |-> match_data.team1, team2 |-> match_data.team2,
     team1_score |-> match_data.team1_score, team2_score |-> match_data.team2_score,
     game_value |-> match_data.game_value, winner |-> match_data.winner]

\* match_data as record_match builds it.
MatchData(game_number, team1, team2, team1_score, team2_score, game_value) ==
    [game_number |-> game_number, team1 |-> team1, team2 |-> team2,
     team1_score |-> team1_score, team2_score |-> team2_score,
     game_value |-> game_value,
     winner |-> IF team1_score > team2_score THEN "team1" ELSE "team2"]

\* datetime.now() as strftime('%Y%m%d%H%M%S') prints it: the date and the
\* second of the day.
Timestamp(d, s) == <<d, s>>

\* f"match_{len(matches) + 1}_{now:%Y%m%d%H%M%S}": the place in the log and
\* the date and second of saving.
MatchId(n, t) == <<n, t>>

\* (mutation: the four players are not checked to be distinct)
MutRecordMatchError(data) ==
    IF Falsy(data.team1) \/ Falsy(data.team2) THEN "Both teams are required"
    ELSE IF data.team1.kind # "list" \/ data.team2.kind # "list" THEN "Teams must be arrays"
    ELSE IF Len(data.team1.items) # 2 \/ Len(data.team2.items) # 2
    THEN "Each team must have exactly 2 players"
    ELSE IF ~IsIntLike(data.team1_score) \/ ~IsIntLike(data.team2_score) THEN "Invalid scores"
    ELSE IF data.team1_score.value < 0 \/ data.team2_score.value < 0
    THEN "Scores must be non-negative"
    ELSE IF ~IsIntLike(data.game_value) THEN "Invalid game value"
    ELSE IF data.game_value.value < 0 \/ data.game_value.value > 5
    THEN "Game value must be between 0 and 5"
    ELSE ""

\* The validation of record_match: the error of the first check that fails,
\* "" when the body passes them all.
RecordMatchError(data) ==
    IF Falsy(data.team1) \/ Falsy(data.team2) THEN "Both teams are required"
    ELSE IF data.team1.kind # "list" \/ data.team2.kind # "list" THEN "Teams must be arrays"
    ELSE IF Len(data.team1.items) # 2 \/ Len(data.team2.items) # 2
    THEN "Each team must have exactly 2 players"
    ELSE IF Cardinality(Range(data.team1.items \o data.team2.items)) # 4
    THEN "All 4 players must be distinct"
    ELSE IF ~IsIntLike(data.team1_score) \/ ~IsIntLike(data.team2_score) THEN "Invalid scores"
    ELSE IF data.team1_score.value < 0 \/ data.team2_score.value < 0
    THEN "Scores must be non-negative"
    ELSE IF ~IsIntLike(data.game_value) THEN "Invalid game value"
    ELSE IF data.game_value.value < 0 \/ data.game_value.value > 5
    THEN "Game value must be between 0 and 5"
    ELSE ""

\* MatchStorage._add_match_to_session(session_id, match_id)
AddMatchToSession(ss, session_id, match_id) ==
    IF session_id \notin DOMAIN ss THEN ss
    ELSE IF match_id \in Range(ss[session_id].match_ids) THEN ss
    ELSE [ss EXCEPT ![session_id].match_ids = Append(@, match_id)]

\* save_match from "# Determine session" on, for match_data without a
\* session_id (no caller gives one): the session of the date d read by
\* _get_local_today() is fetched or created, the record is appended and its
\* id entered in the session.
StoreMatch(ms, ss, match_id, d, match_data) ==
    LET with_session == GetOrCreateSessionForDate(ss, d)
    IN  [match_id |-> match_id,
         matches |-> Append(ms, MatchRecord(match_id, SessionIdForDate(d), match_data)),
         sessions |-> AddMatchToSession(with_session, SessionIdForDate(d), match_id)]

\* MatchStorage.save_match(match_data) when the clock reads the time t and
\* then the date d: the id counts the matches on file.
SaveMatch(ms, ss, d, t, match_data) ==
    StoreMatch(ms, ss, MatchId(Len(ms) + 1, t), d, match_data)

\* POST /api/matches with the body data: the body is validated; a valid
\* match takes the next game number and is saved and returned.
RecordMatch(data) ==
    /\ response = NoResponse
    /\ Len(matches) < MaxRecorded
    /\ next_game_number <= MaxGameNumber
    /\ request' = [pending |-> TRUE, json |-> data]
    /\ IF RecordMatchError(data) # ""
       THEN /\ response' = [status |-> 400, error |-> RecordMatchError(data)]
            /\ UNCHANGED <<next_game_number, matches, sessions>>
       ELSE LET saved == SaveMatch(matches, sessions, today, Timestamp(today, now),
                                   MatchData(next_game_number,
                                             data.team1.items, data.team2.items,
                                             data.team1_score.value,
                                             data.team2_score.value,
                                             data.game_value.value))
            IN  /\ next_game_number' = next_game_number + 1
                /\ matches' = saved.matches
                /\ sessions' = saved.sessions
                /\ response' = [status |-> 200, match |-> saved.matches[Len(saved.matches)]]
    /\ UNCHANGED <<session_players, today, now, candidates, picked, threads>>
    /\ UNCHANGED genVars

\* The body a client posts for a recommendation played as proposed: team_a
\* against team_b, 21-15, game value 3.
PickBody(r) ==
    [team1 |-> JsonList(r.team_a), team2 |-> JsonList(r.team_b),
     team1_score |-> JsonInt(21), team2_score |-> JsonInt(15), game_value |-> JsonInt(3)]

\* The best pick of the recommendation just returned is played and posted
\* before anything else is asked: POST /api/matches with its two teams, and
\* the handler's answer is returned.
RecordBestPick ==
    /\ response.status = 200
    /\ request.pending
    /\ "team_a" \in DOMAIN response
    /\ Len(matches) < LiveRounds
    /\ RecordMatchError(PickBody(response)) = ""
    /\ LET data == PickBody(response)
           saved == SaveMatch(matches, sessions, today, Timestamp(today, now),
                              MatchData(next_game_number,
                                        data.team1.items, data.team2.items,
                                        data.team1_score.value, data.team2_score.value,
                                        data.game_value.value))
       IN  /\ next_game_number' = next_game_number + 1
           /\ matches' = saved.matches
           /\ sessions' = saved.sessions
    /\ request' = NoRequest
    /\ response' = NoResponse
    /\ UNCHANGED <<session_players, today, now, candidates, picked, threads>>
    /\ UNCHANGED genVars

\* record_match on a server thread, step by step. The body is validated.
RecordMatchValidate(t, data) ==
    /\ threads[t] = IdleThread
    /\ threads' = [threads EXCEPT ![t] =
                      IF RecordMatchError(data) # ""
                      THEN [pc |-> "emit",
                            response |-> [status |-> 400, error |-> RecordMatchError(data)]]
                      ELSE [pc |-> "assign_game_number", data |-> data]]
    /\ UNCHANGED <<session_players, next_game_number, matches, sessions, today, now,
                   request, response, candidates, picked>>
    /\ UNCHANGED genVars

\* (mutation: the thread takes the number; its increment is lost)
MutAssignGameNumber(t) ==
    /\ threads[t].pc = "assign_game_number"
    /\ next_game_number <= MaxGameNumber
    /\ threads' = [threads EXCEPT ![t] =
                      [pc |-> "save_match", data |-> @.data,
                       game_number |-> next_game_number]]
    /\ UNCHANGED <<session_players, next_game_number, matches, sessions, today, now,
                   request, response, candidates, picked>>
    /\ UNCHANGED genVars

\* with file_lock: game_number = next_game_number; next_game_number += 1;
\* save_session()
AssignGameNumber(t) ==
    /\ threads[t].pc = "assign_game_number"
    /\ next_game_number <= MaxGameNumber
    /\ next_game_number' = next_game_number + 1
    /\ threads' = [threads EXCEPT ![t] =
                      [pc |-> "save_match", data |-> @.data,
                       game_number |-> next_game_number]]
    /\ UNCHANGED <<session_players, matches, sessions, today, now,
                   request, response, candidates, picked>>
    /\ UNCHANGED genVars

\* match_id = storage.save_match(match_data): storage.lock is held from the
\* load of matches.json to the update of the session.
StorageSaveMatch(t) ==
    /\ threads[t].pc = "save_match"
    /\ Len(matches) < MaxRecorded
    /\ LET data == threads[t].data
           saved == SaveMatch(matches, sessions, today, Timestamp(today, now),
                              MatchData(threads[t].game_number,
                                        data.team1.items, data.team2.items,
                                        data.team1_score.value, data.team2_score.value,
                                        data.game_value.value))
       IN  /\ matches' = saved.matches
           /\ sessions' = saved.sessions
           /\ threads' = [threads EXCEPT ![t] =
                             [pc |-> "load_saved_match", match_id |-> saved.match_id]]
    /\ UNCHANGED <<session_players, next_game_number, today, now,
                   request, response, candidates, picked>>
    /\ UNCHANGED genVars

\* The first match with the id, as its index in the list; 0 when there is none.
FindMatch(ms, match_id) ==
    IF \E i \in DOMAIN ms : ms[i].match_id = match_id
    THEN CHOOSE i \in DOMAIN ms :
            /\ ms[i].match_id = match_id
            /\ \A j \in 1..(i - 1) : ms[j].match_id # match_id
    ELSE 0

\* all_matches = storage.get_all_matches(); saved_match = next(..., None)
LoadSavedMatch(t) ==
    /\ threads[t].pc = "load_saved_match"
    /\ threads' = [threads EXCEPT ![t] =
                      [pc |-> "emit",
                       response |->
                           IF FindMatch(matches, @.match_id) = 0
                           THEN [status |-> 200, match |-> None]
                           ELSE [status |-> 200,
                                 match |-> matches[FindMatch(matches, @.match_id)]]]]
    /\ UNCHANGED <<session_players, next_game_number, matches, sessions, today, now,
                   request, response, candidates, picked>>
    /\ UNCHANGED genVars

\* A field of the body of a PATCH request that is not given.
JsonAbsent == [kind |-> "absent", items |-> <<>>, value |-> 0]

\* The checks of update_match on the fields given, in the order they are made.
UpdateMatchError(data) ==
    IF data.team1_score.kind # "absent" /\ ~IsIntLike(data.team1_score)
    THEN "Invalid team1_score"
    ELSE IF data.team1_score.kind # "absent" /\ data.team1_score.value < 0
    THEN "Score must be non-negative"
    ELSE IF data.team2_score.kind # "absent" /\ ~IsIntLike(data.team2_score)
    THEN "Invalid team2_score"
    ELSE IF data.team2_score.kind # "absent" /\ data.team2_score.value < 0
    THEN "Score must be non-negative"
    ELSE IF data.game_value.kind # "absent" /\ ~IsIntLike(data.game_value)
    THEN "Invalid game_value"
    ELSE IF data.game_value.kind # "absent" /\ data.game_value.value < 0
    THEN "Value must be non-negative"
    ELSE ""

\* match_to_update with the fields given set and the winner recalculated
\* (float(value) of a whole number, rounded to 2 places, is that number).
UpdateFields(m, data) ==
    LET team1_score == IF data.team1_score.kind = "absent" THEN m.team1_score
                       ELSE data.team1_score.value
        team2_score == IF data.team2_score.kind = "absent" THEN m.team2_score
                       ELSE data.team2_score.value
    IN  [m EXCEPT !.team1_score = team1_score,
                  !.team2_score = team2_score,
                  !.winner = IF team1_score > team2_score THEN "team1" ELSE "team2",
                  !.game_value = IF data.game_value.kind = "absent" THEN @
                                 ELSE data.game_value.value]

\* update_match up to its lock: matches.json is loaded (no lock is held),
\* the match is looked up and edited in the loaded list.
UpdateMatchLoad(t, match_id, data) ==
    /\ threads[t] = IdleThread
    /\ threads' = [threads EXCEPT ![t] =
                      LET match_index == FindMatch(matches, match_id)
                      IN  IF match_index = 0
                          THEN [pc |-> "emit",
                                response |-> [status |-> 404, error |-> "Match not found"]]
                          ELSE IF UpdateMatchError(data) # ""
                          THEN [pc |-> "emit",
                                response |-> [status |-> 400,
                                              error |-> UpdateMatchError(data)]]
                          ELSE [pc |-> "update_match_save",
                                match_index |-> match_index,
                                matches |-> [matches EXCEPT ![match_index] =
                                                UpdateFields(@, data)]]]
    /\ UNCHANGED <<session_players, next_game_number, matches, sessions, today, now,
                   request, response, candidates, picked>>
    /\ UNCHANGED genVars

\* with file_lock: json.dump(matches, f): the loaded list, edited, replaces
\* matches.json.
UpdateMatchSave(t) ==
    /\ threads[t].pc = "update_match_save"
    /\ matches' = threads[t].matches
    /\ threads' = [threads EXCEPT ![t] =
                      [pc |-> "emit",
                       response |-> [status |-> 200,
                                     match |-> @.matches[@.match_index]]]]
    /\ UNCHANGED <<session_players, next_game_number, sessions, today, now,
                   request, response, candidates, picked>>
    /\ UNCHANGED genVars

\* list.remove(x): the first occurrence is removed.
RemoveFirst(list, x) ==
    IF \E i \in DOMAIN list : list[i] = x
    THEN LET first == CHOOSE i \in DOMAIN list :
                          list[i] = x /\ \A j \in 1..(i - 1) : list[j] # x
         IN  SubSeq(list, 1, first - 1) \o SubSeq(list, first + 1, Len(list))
    ELSE list

\* MatchStorage._remove_match_from_session
RemoveMatchFromSession(ss, session_id, match_id) ==
    IF session_id \in DOMAIN ss /\ match_id \in Range(ss[session_id].match_ids)
    THEN [ss EXCEPT ![session_id].match_ids = RemoveFirst(@, match_id)]
    ELSE ss

\* MatchStorage.delete_match(match_id): the value returned and the two files
\* it leaves.
StorageDeleteMatch(ms, ss, match_id) ==
    IF FindMatch(ms, match_id) = 0
    THEN [success |-> FALSE, matches |-> ms, sessions |-> ss]
    ELSE [success |-> TRUE,
          matches |-> SelectSeq(ms, LAMBDA m : m.match_id # match_id),
          sessions |-> RemoveMatchFromSession(ss, ms[FindMatch(ms, match_id)].session_id,
                                              match_id)]

\* The DELETE /api/matches/<match_id> handler: storage.delete_match under
\* storage.lock, then the response.
DeleteMatch(t, match_id) ==
    /\ threads[t] = IdleThread
    /\ LET deleted == StorageDeleteMatch(matches, sessions, match_id)
       IN  /\ matches' = deleted.matches
           /\ sessions' = deleted.sessions
           /\ threads' = [threads EXCEPT ![t] =
                             [pc |-> "emit",
                              response |->
                                  IF deleted.success
                                  THEN [status |-> 200, match_id |-> match_id]
                                  ELSE [status |-> 404, error |-> "Match not found"]]]
    /\ UNCHANGED <<session_players, next_game_number, today, now,
                   request, response, candidates, picked>>
    /\ UNCHANGED genVars

\* Names given to the player handlers, after strip(): 0 is the empty string,
\* LongName a name of 51 characters.
LongName == MaxNames + 1

NameLength(name) == IF name = 0 THEN 0 ELSE IF name = LongName THEN 51 ELSE 1

\* add_player up to the check that the name is new: the checks of the name
\* and the scan of session_state['players'] (no lock is held).
AddPlayerCheck(t, name) ==
    /\ threads[t] = IdleThread
    /\ threads' = [threads EXCEPT ![t] =
                      IF NameLength(name) = 0
                      THEN [pc |-> "emit",
                            response |-> [status |-> 400,
                                          error |-> "Player name cannot be empty"]]
                      ELSE IF NameLength(name) > 50
                      THEN [pc |-> "emit",
                            response |-> [status |-> 400, error |-> "Player name too long"]]
                      ELSE IF \E i \in DOMAIN session_players : session_players[i].name = name
                      THEN [pc |-> "emit",
                            response |-> [status |-> 400, error |-> "Player already exists"]]
                      ELSE [pc |-> "append_player", name |-> name]]
    /\ UNCHANGED <<session_players, next_game_number, matches, sessions, today, now,
                   request, response, candidates, picked>>
    /\ UNCHANGED genVars

\* session_state['players'].append(new_player); with file_lock:
\* save_session() (the 'order' of a player is left out of the roster).
AppendPlayer(t) ==
    /\ threads[t].pc = "append_player"
    /\ session_players' = Append(session_players,
                                 [name |-> threads[t].name, active |-> TRUE])
    /\ threads' = [threads EXCEPT ![t] =
                      [pc |-> "emit",
                       response |-> [status |-> 200,
                                     player |-> [name |-> @.name, active |-> TRUE]]]]
    /\ UNCHANGED <<next_game_number, matches, sessions, today, now,
                   request, response, candidates, picked>>
    /\ UNCHANGED genVars

\* get_player_by_name(name): the first player of that name, as its place in
\* the roster; 0 for None.
GetPlayerByName(roster, name) ==
    IF \E i \in DOMAIN roster : roster[i].name = name
    THEN CHOOSE i \in DOMAIN roster :
            roster[i].name = name /\ \A j \in 1..(i - 1) : roster[j].name # name
    ELSE 0

\* delete_player: the player is looked up and removed from the roster
\* (list.remove takes out the first equal entry), and the session is saved.
DeletePlayer(t, name) ==
    /\ threads[t] = IdleThread
    /\ IF GetPlayerByName(session_players, name) = 0
       THEN /\ threads' = [threads EXCEPT ![t] =
                              [pc |-> "emit",
                               response |-> [status |-> 404, error |-> "Player not found"]]]
            /\ UNCHANGED session_players
       ELSE /\ session_players' =
                   RemoveFirst(session_players,
                               session_players[GetPlayerByName(session_players, name)])
            /\ threads' = [threads EXCEPT ![t] =
                              [pc |-> "emit", response |-> [status |-> 200]]]
    /\ UNCHANGED <<next_game_number, matches, sessions, today, now,
                   request, response, candidates, picked>>
    /\ UNCHANGED genVars

\* The 'active' field of a PATCH body: true or false.
JsonBool(b) == [kind |-> "bool", items |-> <<>>, value |-> IF b THEN 1 ELSE 0]

\* toggle_player_active: the player is looked up, the 'active' of the body
\* is checked to be a boolean and set, and the session is saved.
TogglePlayerActive(t, name, data) ==
    /\ threads[t] = IdleThread
    /\ IF GetPlayerByName(session_players, name) = 0
       THEN /\ threads' = [threads EXCEPT ![t] =
                              [pc |-> "emit",
                               response |-> [status |-> 404, error |-> "Player not found"]]]
            /\ UNCHANGED session_players
       ELSE IF data.kind # "bool"
       THEN /\ threads' = [threads EXCEPT ![t] =
                              [pc |-> "emit",
                               response |-> [status |-> 400, error |-> "Invalid request"]]]
            /\ UNCHANGED session_players
       ELSE /\ session_players' =
                   [session_players EXCEPT
                       ![GetPlayerByName(session_players, name)].active = (data.value = 1)]
            /\ threads' = [threads EXCEPT ![t] =
                              [pc |-> "emit",
                               response |-> [status |-> 200,
                                             player |-> [name |-> name,
                                                         active |-> (data.value = 1)]]]]
    /\ UNCHANGED <<next_game_number, matches, sessions, today, now,
                   request, response, candidates, picked>>
    /\ UNCHANGED genVars

\* The 'date' of a POST /api/sessions body that is an ISO date: day d.
JsonDate(d) == [kind |-> "date", items |-> <<>>, value |-> d]

\* create_session: the session of the date given (today when none is given)
\* is looked up or created, and summed up.
CreateSession(t, data) ==
    /\ threads[t] = IdleThread
    /\ IF data.date.kind = "str"     \* date.fromisoformat raises ValueError
       THEN /\ threads' = [threads EXCEPT ![t] =
                              [pc |-> "emit",
                               response |-> [status |-> 400,
                                             error |-> "Invalid date format"]]]
            /\ UNCHANGED sessions
       ELSE LET session_date == IF data.date.kind = "absent" THEN today
                                ELSE data.date.value
                session_id == SessionIdForDate(session_date)
                after == GetOrCreateSessionForDate(sessions, session_date)
                session_matches == GetSessionMatches(after, matches, session_id)
            IN  /\ sessions' = after
                /\ threads' = [threads EXCEPT ![t] =
                       [pc |-> "emit",
                        response |->
                            [status |-> 200, session_id |-> session_id,
                             date |-> after[session_id].date,
                             match_count |-> Len(session_matches),
                             players |->
                                 SortedList(UNION {Range(session_matches[i].team1)
                                                   \cup Range(session_matches[i].team2) :
                                                       i \in DOMAIN session_matches})]]]
    /\ UNCHANGED <<session_players, next_game_number, matches, today, now,
                   request, response, candidates, picked>>
    /\ UNCHANGED genVars

\* The answer of the delete_session handler, from sessions.json as
\* storage.delete_session left it and the count it returned: with no match
\* deleted, storage.get_session looks the session up in the file as it is
\* now.
DeleteSessionResponse(after, session_id, deleted_matches) ==
    IF deleted_matches = 0 /\ session_id \notin DOMAIN after
    THEN [status |-> 404, error |-> "Session not found"]
    ELSE [status |-> 200, session_id |-> session_id, deleted_matches |-> deleted_matches]

\* MatchStorage.delete_session(session_id): the count returned and the two
\* files it leaves.
StorageDeleteSession(ms, ss, session_id) ==
    IF session_id \notin DOMAIN ss
    THEN [deleted_matches |-> 0, matches |-> ms, sessions |-> ss]
    ELSE [deleted_matches |-> Cardinality(Range(ss[session_id].match_ids)),
          matches |-> SelectSeq(ms, LAMBDA m :
                          m.match_id \notin Range(ss[session_id].match_ids)),
          sessions |-> [k \in DOMAIN ss \ {session_id} |-> ss[k]]]

\* The DELETE /api/sessions/<session_id> handler.
DeleteSession(t, session_id) ==
    /\ threads[t] = IdleThread
    /\ LET result == StorageDeleteSession(matches, sessions, session_id)
       IN  /\ matches' = result.matches
           /\ sessions' = result.sessions
           /\ threads' = [threads EXCEPT ![t] =
                             [pc |-> "emit", handler |-> "delete_session",
                              session_id |-> session_id,
                              response |-> DeleteSessionResponse(result.sessions,
                                               session_id, result.deleted_matches)]]
    /\ UNCHANGED <<session_players, next_game_number, today, now,
                   request, response, candidates, picked>>
    /\ UNCHANGED genVars

\* datetime.now(): a second passes.
Tick ==
    /\ now < MaxClock
    /\ now' = now + 1
    /\ UNCHANGED <<session_players, next_game_number, matches, sessions, today,
                   request, response, candidates, picked, threads>>
    /\ UNCHANGED genVars

\* datetime.now(): midnight passes, the date moves on and the seconds of the
\* day start again.
Midnight ==
    /\ today < MaxDay
    /\ today' = today + 1
    /\ now' = 0
    /\ UNCHANGED <<session_players, next_game_number, matches, sessions,
                   request, response, candidates, picked, threads>>
    /\ UNCHANGED genVars

\* storage.save_match(match_data), up to "# Determine session": the lock is
\* taken, matches.json is loaded and the id is made from the number of
\* matches on file and the clock's reading.
SaveMatchStamp(t, match_data) ==
    /\ threads[t] = IdleThread
    /\ Len(matches) < MaxRecorded
    /\ threads' = [threads EXCEPT ![t] =
                      [pc |-> "determine_session",
                       match_id |-> MatchId(Len(matches) + 1, Timestamp(today, now)),
                       match_data |-> match_data]]
    /\ UNCHANGED <<session_players, next_game_number, matches, sessions, today, now,
                   request, response, candidates, picked>>
    /\ UNCHANGED genVars

\* storage.save_match(match_data), from "# Determine session" on: the clock
\* is read again for today's date; the lock is released at the end.
SaveMatchStore(t) ==
    /\ threads[t].pc = "determine_session"
    /\ LET saved == StoreMatch(matches, sessions, threads[t].match_id, today,
                               threads[t].match_data)
       IN  /\ matches' = saved.matches
           /\ sessions' = saved.sessions
    /\ threads' = [threads EXCEPT ![t] = IdleThread]
    /\ UNCHANGED <<session_players, next_game_number, today, now,
                   request, response, candidates, picked>>
    /\ UNCHANGED genVars

\* A direct call of generate_matchup_for_players on a candidate list, with
\* the counters of today's session.
CallGenerateMatchupForPlayers ==
    /\ picked' = [called |-> TRUE,
                  matchup |-> GenerateMatchupForPlayers(candidates,
                                  SessionCounters(GetSessionMatches(sessions, matches,
                                                      SessionIdForDate(today))))]
    /\ UNCHANGED <<session_players, next_game_number, matches, sessions, today, now,
                   request, response, candidates, threads>>
    /\ UNCHANGED genVars

\* ------------------------------------------------------------------------
\* Rosters, match logs and requests of the model
\* ------------------------------------------------------------------------
\* Orders of the names 1..n in the roster: ascending and descending.
ActiveOrders(n) == {[i \in 1..n |-> i], [i \in 1..n |-> n + 1 - i]}

\* session_state['players']: the inactive players, then the active ones.
Roster(active, inactive) ==
    [i \in 1..Len(inactive) |-> [name |-> inactive[i], active |-> FALSE]]
    \o [i \in 1..Len(active) |-> [name |-> active[i], active |-> TRUE]]

\* The matchups of the players S, one per split of every four players.
Matchups(S) ==
    {m \in (S \X S) \X (S \X S) :
        /\ m[1][1] < m[1][2] /\ m[2][1] < m[2][2] /\ m[1][1] < m[2][1]
        /\ Cardinality({m[1][1], m[1][2], m[2][1], m[2][2]}) = 4}

\* A record of matches.json, scored 21-15 with game value 3: the id-th match
\* saved, with game number id.
StoredMatch(id, d, m) ==
    MatchRecord(MatchId(id, Timestamp(d, 0)), SessionIdForDate(d), MatchData(id, m[1], m[2], 21, 15, 3))

\* sessions.json as save_match leaves it for the matches ms.
SessionsOf(ms) ==
    [sid \in {ms[i].session_id : i \in DOMAIN ms} |->
        LET own == SelectSeq(ms, LAMBDA m : m.session_id = sid)
        IN  [session_id |-> sid, date |-> sid[2],
             match_ids |-> [i \in 1..Len(own) |-> own[i].match_id] \o <<>>]]

\* The exclude_ids parameters naming at most two players of S.
ExcludeLists(S) == {SortedList(X) : X \in {X \in SUBSET S : Cardinality(X) <= 2}}

\* Single court: up to MaxActive active players, one more name for an
\* inactive player; at most one match on file, of today (day 2) or of an
\* earlier day (day 1).
SingleRosters ==
    {Roster(a, ina) : a \in UNION {ActiveOrders(n) : n \in 0..MaxActive},
                      ina \in {<<>>, <<MaxActive + 1>>}}

SingleLogs ==
    {<<>>} \cup {<<StoredMatch(1, d, m)>> : d \in 1..2, m \in Matchups(1..MaxActive)}

SingleExcludeIds == ExcludeLists(1..(MaxActive + 1))

\* Dual court: pools around the threshold of eight players.
DualRosters == {Roster([i \in 1..n |-> i], <<>>) : n \in 7..MaxDualPool}

DualLogs == {<<>>, <<StoredMatch(1, 2, << <<1, 2>>, <<3, 4>> >>)>>}

DualExcludeIds == {<<>>, <<1>>, <<1, 2>>}

\* Candidate lists and logs of the direct calls.
SelectLogs ==
    {<<>>, <<StoredMatch(1, 2, << <<1, 2>>, <<3, 4>> >>)>>,
     <<StoredMatch(1, 2, << <<1, 2>>, <<3, 5>> >>)>>,
     <<StoredMatch(1, 2, << <<1, 2>>, <<3, 4>> >>), StoredMatch(2, 2, << <<1, 3>>, <<2, 4>> >>)>>}

\* Logs of several sessions: up to two matches among players 1..4, each of
\* today or of an earlier day, with 4 to MaxActive active players.
HistoryRosters ==
    {Roster(a, <<>>) : a \in UNION {ActiveOrders(n) : n \in 4..MaxActive}}

HistoryLogs ==
    {<<>>}
    \cup {<<StoredMatch(1, d, m)>> : d \in 1..2, m \in Matchups(1..4)}
    \cup {<<StoredMatch(1, d[1], m[1]), StoredMatch(2, d[2], m[2])>> :
              d \in (1..2) \X (1..2), m \in Matchups(1..4) \X Matchups(1..4)}

\* Requests served by several threads: 4 or 5 active players.
ThreadRosters == {Roster([i \in 1..n |-> i], <<>>) : n \in 4..5}

ThreadExcludeIds == {<<>>, <<1>>}

\* Bodies of POST /api/matches: each team missing, a string, or a list of up
\* to three names with or without repetition; scores and game value valid,
\* not numbers, or out of range.
TeamInputs ==
    {JsonNull, JsonString}
    \cup {JsonList(t) : t \in {<<>>, <<1>>, <<1, 2>>, <<3, 4>>, <<1, 1>>, <<2, 3>>,
                               <<1, 4>>, <<1, 2, 3>>}}

ScoreInputs ==
    {[team1_score |-> JsonInt(21), team2_score |-> JsonInt(15), game_value |-> JsonInt(3)],
     [team1_score |-> JsonInt(21), team2_score |-> JsonString, game_value |-> JsonInt(3)],
     [team1_score |-> JsonInt(0 - 1), team2_score |-> JsonInt(21), game_value |-> JsonInt(3)],
     [team1_score |-> JsonInt(21), team2_score |-> JsonInt(15), game_value |-> JsonInt(6)]}

RecordBodies ==
    {[team1 |-> t[1], team2 |-> t[2], team1_score |-> sc.team1_score,
      team2_score |-> sc.team2_score, game_value |-> sc.game_value] :
        t \in TeamInputs \X TeamInputs, sc \in ScoreInputs}

RecordLogs == {<<>>, <<StoredMatch(1, 1, << <<1, 2>>, <<3, 4>> >>)>>}

\* The state before any call: no generator yet; the roster among rosters,
\* the matches on file among logs with their sessions, the next game number
\* after them, no request being answered, and the list of the direct calls
\* among lists.
InitWith(rosters, logs, lists) ==
    /\ gen = "none"
    /\ players = <<>>
    /\ partnership_count = EmptyPairCount
    /\ opponent_count = EmptyPairCount
    /\ sitout_count = EmptyPlayerCount
    /\ last_matchup = None
    /\ last_session = <<>>
    /\ last_call = Call("none", <<>>, 0, 0)
    /\ applied = <<>>
    /\ wiped = FALSE
    /\ scored = NotScored
    /\ session_players \in rosters
    /\ matches \in logs
    /\ next_game_number = Len(matches) + 1
    /\ sessions = SessionsOf(matches)
    /\ today = 2
    /\ now = 0
    /\ request = NoRequest
    /\ response = NoResponse
    /\ candidates \in lists
    /\ picked = NotCalled
    /\ threads = [t \in Threads |-> IdleThread]

InitGen == InitWith({<<>>}, {<<>>}, {<<>>})

InitRec == InitWith(SingleRosters, SingleLogs, {<<>>})

NextRec ==
    \/ \E exclude_ids \in SingleExcludeIds : GetRecommendations(exclude_ids)
    \/ ReturnResponse

InitDual == InitWith(DualRosters, DualLogs, {<<>>})

NextDual == \E exclude_ids \in DualExcludeIds : GetRecommendations(exclude_ids)

InitHistory == InitWith(HistoryRosters, HistoryLogs, {<<>>})

InitThreads == InitWith(ThreadRosters, DualLogs, {<<>>})

NextThreads ==
    \/ \E t \in Threads, exclude_ids \in ThreadExcludeIds : ReadActivePlayers(t, exclude_ids)
    \/ \E t \in Threads : GetCurrentSession(t)
    \/ \E t \in Threads : ReadSessionMatches(t)
    \/ \E t \in Threads : Enumerate(t)
    \/ \E t \in Threads : Emit(t)

\* Bodies of PATCH requests: a new score for team 1 that changes the winner,
\* a new game value, and a negative score for team 2.
UpdateBodies ==
    {[team1_score |-> JsonInt(9), team2_score |-> JsonAbsent, game_value |-> JsonAbsent],
     [team1_score |-> JsonAbsent, team2_score |-> JsonAbsent, game_value |-> JsonInt(2)],
     [team1_score |-> JsonAbsent, team2_score |-> JsonInt(0 - 1), game_value |-> JsonString]}

\* Bodies of POST requests of the concurrent handlers: two good ones and one
\* with a player in both teams.
LogBodies ==
    {b \in RecordBodies :
        /\ b.team1 = JsonList(<<1, 2>>)
        /\ b.team2 \in {JsonList(<<3, 4>>), JsonList(<<2, 3>>)}
        /\ b.team1_score = JsonInt(21) /\ b.team2_score = JsonInt(15)
        /\ b.game_value = JsonInt(3)}

\* Ids of PATCH and DELETE requests: the ids on file, of either day, and one
\* more.
MatchIdInputs == {MatchId(n, Timestamp(d, 0)) : n \in 1..(MaxRecorded + 1), d \in 1..2}

\* Concurrent record_match, update_match and delete_match requests on a log
\* of one match of today.
InitLog ==
    InitWith({Roster(<<1, 2, 3, 4>>, <<>>)},
             {<<StoredMatch(1, 2, << <<1, 2>>, <<3, 4>> >>)>>}, {<<>>})

NextLog ==
    \/ \E t \in Threads, data \in LogBodies : RecordMatchValidate(t, data)
    \/ \E t \in Threads : AssignGameNumber(t)
    \/ \E t \in Threads : StorageSaveMatch(t)
    \/ \E t \in Threads : LoadSavedMatch(t)
    \/ \E t \in Threads, match_id \in MatchIdInputs, data \in UpdateBodies :
           UpdateMatchLoad(t, match_id, data)
    \/ \E t \in Threads : UpdateMatchSave(t)
    \/ \E t \in Threads, match_id \in MatchIdInputs : DeleteMatch(t, match_id)
    \/ \E t \in Threads : Emit(t)

SpecLog == InitLog /\ [][NextLog]_vars

\* Ids of DELETE requests when the clock runs.
ClockedIdInputs ==
    {MatchId(n, Timestamp(2, t)) : n \in 1..(MaxRecorded + 1), t \in 0..MaxClock}

\* Matches are recorded and deleted, one request at a time, while the clock
\* runs.
InitIds == InitWith({Roster(<<1, 2, 3, 4>>, <<>>)}, {<<>>}, {<<>>})

NextIds ==
    \/ \E data \in LogBodies : RecordMatch(data)
    \/ ReturnResponse
    \/ \E match_id \in ClockedIdInputs : DeleteMatch(1, match_id)
    \/ Emit(1)
    \/ Tick

SpecIds == InitIds /\ [][NextIds]_vars

\* The match saved by the calls on the storage, and the ids and sessions
\* they delete.
StoreData == MatchData(1, <<1, 2>>, <<3, 4>>, 21, 15, 3)

StoreIdInputs ==
    {MatchId(n, Timestamp(d, t)) : n \in 1..MaxRecorded, d \in 2..MaxDay, t \in 0..MaxClock}

StoreSessionInputs == {SessionIdForDate(d) : d \in 2..MaxDay}

\* save_match, delete_match and delete_session called one after the other on
\* an empty storage, while the clock runs.
InitStore == InitWith({<<>>}, {<<>>}, {<<>>})

NextStore ==
    \/ SaveMatchStamp(1, StoreData)
    \/ SaveMatchStore(1)
    \/ \E match_id \in StoreIdInputs : DeleteMatch(1, match_id)
    \/ \E session_id \in StoreSessionInputs : DeleteSession(1, session_id)
    \/ Emit(1)
    \/ Tick
    \/ Midnight

SpecStore == InitStore /\ [][NextStore]_vars

\* Single-court live play: 5 to 7 active players, in ascending or descending
\* order on the roster, with no match or one match of today on file; every
\* recommendation is asked without exclusions and played as proposed.
LiveRosters == {Roster(a, <<>>) : a \in UNION {ActiveOrders(n) : n \in 5..7}}

LiveLogs == {<<>>, <<StoredMatch(1, 2, << <<1, 2>>, <<3, 4>> >>)>>}

InitLive == InitWith(LiveRosters, LiveLogs, {<<>>})

NextLive ==
    \/ GetRecommendations(<<>>)
    \/ RecordBestPick

SpecLive == InitLive /\ [][NextLive]_vars

\* A request for a recommendation without exclusions is made and answered,
\* with no content or with an answer of status 200: the steps of
\* GetRecommendations(<<>>), whatever is recommended.
AskRecommendation ==
    /\ response = NoResponse
    /\ sessions' = GetOrCreateSessionForDate(sessions, today)
    /\ request' = [exclude_ids |-> <<>>, pending |-> TRUE]
    /\ \/ response' = NoContent
       \/ response'.status = 200
    /\ UNCHANGED <<session_players, next_game_number, matches, today, now, candidates, picked,
                   threads>>
    /\ UNCHANGED genVars

\* The same, when play goes on: a client with no answer on hand asks for a
\* recommendation, and a client that has one plays it and posts the match.
SpecLiveFair == SpecLive /\ WF_vars(AskRecommendation) /\ WF_vars(RecordBestPick)

\* Logs of two matches of today among six names, the first with players 1
\* and 2 as a team, on rosters of five or six active players.
OpponentRosters == {Roster(<<1, 2, 3, 4, 5>>, <<6>>), Roster(<<1, 2, 3, 4, 5, 6>>, <<>>)}

OpponentLogs ==
    {<<StoredMatch(1, 2, m1), StoredMatch(2, 2, m2)>> :
        m1 \in {m \in Matchups(1..6) : m[1] = <<1, 2>>}, m2 \in Matchups(1..6)}

OpponentExcludeIds == {<<>>, <<5>>}

InitOpponent == InitWith(OpponentRosters, OpponentLogs, {<<>>})

NextOpponent ==
    \/ \E exclude_ids \in OpponentExcludeIds : GetRecommendations(exclude_ids)
    \/ ReturnResponse

\* Requests on logs that pair the same teams against different opponents.
SpecOpponent == InitOpponent /\ [][NextOpponent]_vars

\* Names of the requests on players: the empty and the long one, a name on
\* the roster and a new one.
PlayerNameInputs == {0, 1, 5, LongName}

\* The 'active' of the PATCH bodies: true, false, a number, not given.
ToggleBodies == {JsonBool(TRUE), JsonBool(FALSE), JsonInt(1), JsonAbsent}

\* Concurrent add_player, delete_player and toggle_player_active requests.
InitRoster == InitWith({Roster(<<1, 2, 3>>, <<4>>)}, {<<>>}, {<<>>})

NextRoster ==
    \/ \E t \in Threads, name \in PlayerNameInputs : AddPlayerCheck(t, name)
    \/ \E t \in Threads : AppendPlayer(t)
    \/ \E t \in Threads, name \in PlayerNameInputs : DeletePlayer(t, name)
    \/ \E t \in Threads, name \in PlayerNameInputs, data \in ToggleBodies :
           TogglePlayerActive(t, name, data)
    \/ \E t \in Threads : Emit(t)

SpecRoster == InitRoster /\ [][NextRoster]_vars

\* Bodies of POST /api/sessions: no date, a string that is no date, a date.
SessionBodies == {[date |-> d] : d \in {JsonAbsent, JsonString} \cup {JsonDate(n) : n \in 1..3}}

\* Ids of DELETE /api/sessions requests.
SessionIdInputs == {SessionIdForDate(d) : d \in 1..3}

\* Sessions are created and deleted, and matches deleted, on logs of up to
\* two sessions.
InitSession == InitWith({Roster(<<1, 2, 3, 4>>, <<>>)}, HistoryLogs, {<<>>})

NextSession ==
    \/ \E t \in Threads, data \in SessionBodies : CreateSession(t, data)
    \/ \E t \in Threads, session_id \in SessionIdInputs : DeleteSession(t, session_id)
    \/ \E t \in Threads, match_id \in MatchIdInputs : DeleteMatch(t, match_id)
    \/ \E t \in Threads : Emit(t)

SpecSession == InitSession /\ [][NextSession]_vars

\* Concurrent record_match requests.
InitNumber == InitWith({Roster(<<1, 2, 3, 4>>, <<>>)}, RecordLogs, {<<>>})

NextNumber ==
    \/ \E t \in Threads, data \in LogBodies : RecordMatchValidate(t, data)
    \/ \E t \in Threads : AssignGameNumber(t)
    \/ \E t \in Threads : StorageSaveMatch(t)
    \/ \E t \in Threads : LoadSavedMatch(t)
    \/ \E t \in Threads : Emit(t)

SpecNumber == InitNumber /\ [][NextNumber]_vars

InitRecord == InitWith({Roster(<<1, 2, 3, 4>>, <<>>)}, RecordLogs, {<<>>})

NextRecord == (\E data \in RecordBodies : RecordMatch(data)) \/ ReturnResponse

\* The pool of the score comparisons and its candidates in which the first
\* player of the list is on the first team.
ScorePlayers == [i \in 1..MaxNames |-> i]

ScoreCandidateInputs ==
    {c \in (Range(ScorePlayers) \X Range(ScorePlayers))
            \X (Range(ScorePlayers) \X Range(ScorePlayers)) :
        /\ c[1][1] = ScorePlayers[1]
        /\ c[2][1] < c[2][2]
        /\ Cardinality({c[1][1], c[1][2], c[2][1], c[2][2]}) = 4}

\* A generator on ScorePlayers after n <= ScoreRounds generate_matchup
\* calls from its construction.
InitScore ==
    \E n \in 0..ScoreRounds :
        LET r == StepwiseRounds(EmptyHistory, ScorePlayers, n, <<>>)
        IN  /\ gen = "ready"
            /\ players = ScorePlayers
            /\ partnership_count = r.history.partnership_count
            /\ opponent_count = r.history.opponent_count
            /\ sitout_count = r.history.sitout_count
            /\ last_matchup = (IF n = 0 THEN None ELSE r.matchups[n])
            /\ last_session = <<>>
            /\ last_call = (IF n = 0 THEN Call("init", ScorePlayers, 0, 0)
                            ELSE Call("generate_matchup", <<>>, 0, 0))
            /\ applied = r.matchups
            /\ wiped = FALSE
            /\ scored = NotScored
            /\ session_players = <<>>
            /\ matches = <<>>
            /\ next_game_number = 1
            /\ sessions = SessionsOf(matches)
            /\ today = 2
            /\ now = 0
            /\ request = NoRequest
            /\ response = NoResponse
            /\ candidates = <<>>
            /\ picked = NotCalled
            /\ threads = [t \in Threads |-> IdleThread]

NextScore == \E c1, c2 \in ScoreCandidateInputs : ScoreCandidates(c1, c2)

\* _update_history called for every round of the list rounds from lo to hi,
\* in order; the first half of the rounds is recorded before the second half
\* is entered.
RECURSIVE RecordRounds(_, _, _, _, _)
RecordRounds(h, ps, rounds, lo, hi) ==
    IF lo > hi THEN h
    ELSE IF lo = hi THEN UpdateHistory(h, ps, rounds[lo][1], rounds[lo][2])
    ELSE LET mid == (lo + hi) \div 2
             first == RecordRounds(h, ps, rounds, lo, mid)
         IN  IF first = h THEN RecordRounds(h, ps, rounds, mid + 1, hi)
             ELSE RecordRounds(first, ps, rounds, mid + 1, hi)

\* Histories with one round recorded many times: five players, the round
\* 1,2 v 3,4 recorded k times (player 5 sits out), then 1,3 v 4,5 once
\* (player 2 sits out).
RepeatPlayers == <<1, 2, 3, 4, 5>>

RepeatCounts == {0, 1, 2, MaxRepeats}

RepeatedRounds(k) ==
    [i \in 1..(k + 1) |-> IF i <= k THEN << <<1, 2>>, <<3, 4>> >>
                          ELSE << <<1, 3>>, <<4, 5>> >>] \o <<>>

\* The candidates over RepeatPlayers, one per split of every four players.
RepeatCandidateInputs == Matchups(Range(RepeatPlayers))

\* A generator on RepeatPlayers whose history holds the rounds
\* RepeatedRounds(k), recorded by _update_history.
InitRepeat ==
    \E k \in RepeatCounts :
        LET h == RecordRounds(EmptyHistory, RepeatPlayers, RepeatedRounds(k), 1, k + 1)
        IN  /\ gen = "ready"
            /\ players = RepeatPlayers
            /\ partnership_count = h.partnership_count
            /\ opponent_count = h.opponent_count
            /\ sitout_count = h.sitout_count
            /\ last_matchup = None
            /\ last_session = <<>>
            /\ last_call = Call("_update_history", <<>>, 0, 0)
            /\ applied = RepeatedRounds(k)
            /\ wiped = FALSE
            /\ scored = NotScored
            /\ session_players = <<>>
            /\ matches = <<>>
            /\ next_game_number = 1
            /\ sessions = SessionsOf(matches)
            /\ today = 2
            /\ now = 0
            /\ request = NoRequest
            /\ response = NoResponse
            /\ candidates = <<>>
            /\ picked = NotCalled
            /\ threads = [t \in Threads |-> IdleThread]

NextRepeat == \E c1, c2 \in RepeatCandidateInputs : ScoreCandidates(c1, c2)

\* Pools of exactly four players, in three orders of the list.
FourLists == {<<1, 2, 3, 4>>, <<4, 3, 2, 1>>, <<2, 4, 1, 3>>}

FourPairKeys == {k \in PairKeys : k[1] < k[2] /\ k[2] <= 4}

\* partnership_count with any count up to MaxPartnered for every pair of the
\* four players.
FourPartnerships ==
    {[k \in PairKeys |-> IF k \in FourPairKeys THEN f[k] ELSE 0] :
        f \in [FourPairKeys -> 0..MaxPartnered]}

\* A generator on four players whose partnership_count attribute holds any
\* of FourPartnerships while opponent_count and sitout_count are empty.
InitFour ==
    /\ gen = "ready"
    /\ players \in FourLists
    /\ partnership_count \in FourPartnerships
    /\ opponent_count = EmptyPairCount
    /\ sitout_count = EmptyPlayerCount
    /\ last_matchup = None
    /\ last_session = <<>>
    /\ last_call = Call("init", players, 0, 0)
    /\ applied = <<>>
    /\ wiped = FALSE
    /\ scored = NotScored
    /\ session_players = <<>>
    /\ matches = <<>>
    /\ next_game_number = 1
    /\ sessions = SessionsOf(matches)
    /\ today = 2
    /\ now = 0
    /\ request = NoRequest
    /\ response = NoResponse
    /\ candidates = <<>>
    /\ picked = NotCalled
    /\ threads = [t \in Threads |-> IdleThread]

NextFour == GenerateMatchup

\* Every list of four names in ascending (alphabetical) order.
SortedFours == {SortedList(S) : S \in {T \in SUBSET Names : Cardinality(T) = 4}}

InitSorted == InitWith({<<>>}, {<<>>}, SortedFours)

NextSorted ==
    \/ Construct(candidates)
    \/ GenerateMatchup

\* A generator constructed on four players in alphabetical order and asked
\* for rounds.
SpecSorted == InitSorted /\ [][NextSorted]_vars

\* generate_matchup on four players under a history of partnerships alone.
SpecFour == InitFour /\ [][NextFour]_vars

\* The candidates over RepeatPlayers in every order of the teams and of the
\* players of a team.
OrderedCandidateInputs ==
    {c \in (Range(RepeatPlayers) \X Range(RepeatPlayers))
            \X (Range(RepeatPlayers) \X Range(RepeatPlayers)) :
        Cardinality({c[1][1], c[1][2], c[2][1], c[2][2]}) = 4}

NextOrder ==
    \E c1 \in RepeatCandidateInputs, c2 \in OrderedCandidateInputs : ScoreCandidates(c1, c2)

InitSelect == InitWith({<<>>}, SelectLogs, PlayerLists)

NextSelect ==
    \/ Construct(candidates)
    \/ CallGenerateMatchupForPlayers

\* The generator alone.
SpecGen == InitGen /\ [][NextGen]_vars

\* The recommender in single-court mode.
SpecRec == InitRec /\ [][NextRec]_vars

\* The recommender around the dual-court threshold.
SpecDual == InitDual /\ [][NextDual]_vars

\* Both selection procedures called on the same list of players.
SpecSelect == InitSelect /\ [][NextSelect]_vars

\* Both candidate enumerators on the same list of players: the generator is
\* constructed on it and asked for rounds, and generate_matchup_for_players
\* is called on it.
EnumLists == UNION {ActiveOrders(n) : n \in 0..MaxPlayers}

InitEnum == InitWith({<<>>}, SelectLogs, EnumLists)

NextEnum ==
    \/ Construct(candidates)
    \/ GenerateMatchup
    \/ CallGenerateMatchupForPlayers

SpecEnum == InitEnum /\ [][NextEnum]_vars

\* The two places that keep the counters: a generator that is constructed,
\* asked for rounds and reset, and the match log of the live application,
\* recounted after matches are recorded.
TrackLists == {<<1, 2, 3, 4>>, <<1, 2, 3, 4, 5>>}

TrackBodies ==
    {b \in RecordBodies :
        /\ b.team1 \in {JsonList(<<1, 2>>), JsonList(<<1, 4>>)}
        /\ b.team2 \in {JsonList(<<3, 4>>), JsonList(<<2, 3>>)}
        /\ b.team1_score = JsonInt(21) /\ b.team2_score = JsonInt(15)
        /\ b.game_value = JsonInt(3)}

InitTrack == InitWith({Roster(<<1, 2, 3, 4>>, <<>>)}, RecordLogs, TrackLists)

NextTrack ==
    \/ Construct(candidates)
    \/ GenerateMatchup
    \/ ResetHistory
    \/ \E data \in TrackBodies : RecordMatch(data)
    \/ ReturnResponse

SpecTrack == InitTrack /\ [][NextTrack]_vars

\* get_recommendations run by the threads of the server, step by step.
SpecThreads == InitThreads /\ [][NextThreads]_vars

\* Matches posted to record_match, one request at a time.
SpecRecord == InitRecord /\ [][NextRecord]_vars

\* _score_matchup called on pairs of candidates after some rounds.
SpecScore == InitScore /\ [][NextScore]_vars

\* _score_matchup called on pairs of candidates under a history with one
\* round recorded many times.
SpecRepeat == InitRepeat /\ [][NextRepeat]_vars

\* _score_matchup called on a candidate and on a candidate in any order of
\* its teams and players.
SpecOrder == InitRepeat /\ [][NextOrder]_vars

\* Requests on rosters with matches of several sessions on file.
SpecHistory == InitHistory /\ [][NextRec]_vars


\* ------------------------------------------------------------------------
\* Properties of the generator
\* ------------------------------------------------------------------------
\* A matchup of two disjoint teams of two players of the list ps.
WellFormedMatchup(m, ps) ==
    /\ m # None
    /\ Len(m) = 2
    /\ Len(m[1]) = 2
    /\ Len(m[2]) = 2
    /\ Range(m[1]) \cap Range(m[2]) = {}
    /\ Cardinality(Range(m[1]) \cup Range(m[2])) = 4
    /\ Range(m[1]) \cup Range(m[2]) \subseteq Range(ps)

\* C1: on a generator built from n >= 4 distinct players, after any sequence
\* of generate_matchup / generate_session / reset_history calls,
\* generate_matchup returns a matchup, never None: two disjoint teams of
\* exactly two players each, all four from the generator's player list.
C1_MatchupWellFormed ==
    (gen = "ready" /\ last_call.op = "generate_matchup")
        => WellFormedMatchup(last_matchup, players)

\* generate_matchup has answered on a list of five or more players after
\* other rounds were applied.
C1_Witness ==
    /\ gen = "ready"
    /\ last_call.op = "generate_matchup"
    /\ Len(players) >= 5
    /\ Len(applied) >= 3
    /\ last_matchup # None

\* The players sitting out the k-th round applied.
SatOut(k) == SittingPlayers(players, applied[k][1], applied[k][2])

\* C2: from an empty history on a fixed pool of n >= 5 players, after any
\* number of rounds the sit-out counts of any two players differ by at most
\* 1; with 5 players the player who sat out round 1 plays in round 2.
C2_SitoutBalanced ==
    (gen = "ready" /\ Len(players) >= 5) =>
        /\ \A p, q \in Range(players) : sitout_count[p] - sitout_count[q] <= 1
        /\ (Len(players) = 5 /\ Len(applied) >= 2) =>
              SatOut(1) \subseteq PlayingPlayers(applied[2][1], applied[2][2])

\* Five players, two rounds applied: one player has sat out, another has not.
C2_Witness ==
    /\ gen = "ready"
    /\ Len(players) = 5
    /\ Len(applied) >= 2
    /\ \E p, q \in Range(players) : sitout_count[p] = 1 /\ sitout_count[q] = 0

StepwiseFromEmpty == StepwiseRounds(EmptyHistory, players, Len(applied), <<>>)

\* C4: the matchups of generate_session for N rounds are those of N
\* successive generate_matchup calls from the same history, so that any mix
\* of sessions and single calls (a session of N rounds followed by one of M
\* rounds, too) yields the matchups and the history of as many single
\* select-then-record steps.
C4_SessionIsStepwise ==
    gen = "ready" =>
        /\ applied = StepwiseFromEmpty.matchups
        /\ CurrentHistory = StepwiseFromEmpty.history

\* A session of two or more rounds was generated after earlier rounds.
C4_Witness ==
    /\ gen = "ready"
    /\ last_call.op = "generate_session"
    /\ Len(last_session) >= 2
    /\ Len(applied) > Len(last_session)

\* C16: reset_history, after any rounds, leaves every partnership, opponent
\* and sit-out counter at zero and the generator as MatchupGenerator(players)
\* builds it: the call made next returns what the first call on a fresh
\* generator of the same list returns (one matchup, or a whole session);
\* and a reset_history that follows a reset_history changes no counter.
C16_ResetRestoresFresh ==
    [][/\ last_call'.op = "reset_history" =>
              /\ gen' = "ready"
              /\ players' = players
              /\ \A k \in PairKeys : partnership_count'[k] = 0 /\ opponent_count'[k] = 0
              /\ \A p \in Names : sitout_count'[p] = 0
              /\ last_call.op = "reset_history" => CurrentHistory' = CurrentHistory
       /\ (last_call.op = "reset_history" /\ last_call'.op = "generate_matchup") =>
              last_matchup' = GenerateMatchupOp(EmptyHistory, players).matchup
       /\ (last_call.op = "reset_history" /\ last_call'.op = "generate_session") =>
              SessionMatchups(last_session')
                  = StepwiseRounds(EmptyHistory, players, Len(last_session'), <<>>).matchups
      ]_vars

\* reset_history was called on five players after rounds in which somebody
\* sat out, and every counter is back at zero.
C16_Witness ==
    /\ last_call.op = "reset_history"
    /\ wiped
    /\ Len(players) = 5
    /\ CurrentHistory = EmptyHistory

\* The number of rounds among the first n since the history was empty in
\* which p and q were teamed.
TimesTeamed(p, q, n) ==
    Cardinality({i \in 1..n :
                    {p, q} = Range(applied[i][1]) \/ {p, q} = Range(applied[i][2])})

\* C18: on exactly 4 players, from an empty history, after a session of any
\* length n up to 16 rounds (the first n rounds of the rounds played), the
\* numbers of times a player was teamed with each of the partners they had
\* are at most 3 apart.
C18_PartnerSpreadAtMostThree ==
    (gen = "ready" /\ Len(players) = 4 /\ Len(applied) <= FairnessRounds) =>
        \A n \in 1..Len(applied) :
            \A p \in Range(players) :
                \A q, r \in Range(players) \ {p} :
                    (TimesTeamed(p, q, n) > 0 /\ TimesTeamed(p, r, n) > 0) =>
                        TimesTeamed(p, q, n) - TimesTeamed(p, r, n) <= FairnessSpread

\* The session of the fairness test: 16 rounds in one generate_session call
\* on a list of 4 players that is not in ascending order.
C18_Witness ==
    /\ Len(players) = 4
    /\ players[1] > players[2]
    /\ last_call.op = "generate_session"
    /\ Len(last_session) = FairnessRounds
    /\ Len(applied) = FairnessRounds

\* The candidates of a round over the players ps: two disjoint teams.
PolicyACandidates(ps) ==
    {c \in (Range(ps) \X Range(ps)) \X (Range(ps) \X Range(ps)) :
        /\ c[1][1] < c[1][2] /\ c[2][1] < c[2][2]
        /\ Cardinality({c[1][1], c[1][2], c[2][1], c[2][2]}) = 4}

\* The sorted 4-tuple of the players of a matchup.
SortedPlayers(m) == SortedList(Range(m[1]) \cup Range(m[2]))

\* C19: among the candidates of minimal score under the history before the
\* call, generate_matchup returns one whose sorted 4-tuple of players is the
\* lexicographically smallest, for every history and order of the list.
C19_TieBreakLexicographic ==
    [][(last_call'.op = "generate_matchup" /\ last_matchup' # None) =>
          LET all == PolicyACandidates(players)
              score == [c \in all |-> ScoreMatchup(CurrentHistory, players, c[1], c[2])]
              minimal == {c \in all : \A d \in all : score[c] <= score[d]}
          IN  \A c \in minimal :
                  ~ListLess(SortedPlayers(c), SortedPlayers(last_matchup'))
      ]_vars

\* C20: partner variety dominates opponent variety: of two candidates over
\* the same pool with equal sit-out terms, the one with the strictly smaller
\* partnership term has the strictly smaller score, whatever the opponent
\* terms are.
C20_PartnersDominateOpponents ==
    (/\ scored.called
     /\ scored.first.sitout_score = scored.second.sitout_score
     /\ scored.first.partnership_score < scored.second.partnership_score) =>
        scored.first.score < scored.second.score

C5_SessionLength ==
    last_call.op = "generate_session" =>
        /\ Len(last_session) = last_call.minutes \div last_call.minutes_per_game
        /\ \A i \in 1..Len(last_session) :
              /\ last_session[i].game_number = i
              /\ last_session[i].estimated_start_time = (i - 1) * last_call.minutes_per_game

\* ------------------------------------------------------------------------
\* Properties of the recommender
\* ------------------------------------------------------------------------
ActivePlayers == GetActivePlayers(session_players)

Excluded == ExcludedPlayers(request.exclude_ids)

\* total_games of today's session, as the handler counts them.
TotalGamesToday ==
    SessionCounters(GetSessionMatches(sessions, matches, SessionIdForDate(today))).total_games

\* The players named in a 200 response: on the courts of a dual-court
\* answer, in the best pick and the alternatives of a single-court answer.
ResponsePlayers(r) ==
    IF r.dual_court
    THEN UNION {Range(r.matchups[k].team_a) \cup Range(r.matchups[k].team_b) :
                   k \in DOMAIN r.matchups}
    ELSE Range(r.team_a) \cup Range(r.team_b)
         \cup UNION {Range(r.recommendations[k].team_a) \cup Range(r.recommendations[k].team_b) :
                        k \in DOMAIN r.recommendations}

\* C6: scheduling with fewer than 4 players is refused and produces no
\* matchup: MatchupGenerator on fewer than 4 players raises (no generator,
\* no history afterwards), and generate_matchup_for_players on fewer than 4
\* candidates returns None.
C6_TooFewPlayersRefused ==
    /\ (last_call.op = "init" /\ Len(last_call.players) < 4) =>
          /\ gen = "error"
          /\ players = <<>>
          /\ CurrentHistory = EmptyHistory
          /\ last_matchup = None
          /\ applied = <<>>
    /\ (picked.called /\ Len(candidates) < 4) => picked.matchup = None

\* Both procedures were called on a list of three players, with matches on
\* file.
C6_Witness ==
    /\ last_call.op = "init"
    /\ gen = "error"
    /\ picked.called
    /\ Len(candidates) = 3
    /\ matches # <<>>

\* C7: every dual-court recommendation on n >= 8 active players holds
\* exactly 2 matchups of 8 pairwise distinct active players, player_ids
\* lists exactly those 8, and exactly n - 8 active players are left out.
C7_DualCourtsDistinct ==
    (response.status = 200 /\ response.dual_court) =>
        /\ Len(ActivePlayers) >= 8
        /\ Len(response.matchups) = 2
        /\ \A k \in 1..2 : /\ Len(response.matchups[k].team_a) = 2
                           /\ Len(response.matchups[k].team_b) = 2
                           /\ response.matchups[k].court = k
        /\ Cardinality(ResponsePlayers(response)) = 8
        /\ ResponsePlayers(response) \subseteq Range(ActivePlayers)
        /\ Len(response.player_ids) = 8
        /\ Range(response.player_ids) = ResponsePlayers(response)
        /\ Cardinality(Range(ActivePlayers) \ ResponsePlayers(response))
              = Len(ActivePlayers) - 8

\* A dual-court answer on nine active players.
C7_Witness ==
    /\ response.status = 200
    /\ response.dual_court
    /\ Len(ActivePlayers) = 9
    /\ Cardinality(Range(ActivePlayers) \ Range(response.player_ids)) = 1

\* C8: the answer is in dual-court mode exactly when at least 8 players are
\* active, whatever exclude_ids is; and in that mode the set of responses
\* the call can produce is the same for every exclude_ids.
C8_DualIffEightActive ==
    /\ request.pending =>
          ((response.status = 200 /\ response.dual_court) <=> Len(ActivePlayers) >= 8)
    /\ (~request.pending /\ Len(ActivePlayers) >= 8) =>
          LET unfiltered == Responses(session_players,
                                      GetOrCreateSessionForDate(sessions, today),
                                      matches, today, <<>>)
          IN  \A exclude_ids \in DualExcludeIds \ {<<>>} :
                  Responses(session_players, GetOrCreateSessionForDate(sessions, today),
                            matches, today, exclude_ids) = unfiltered

\* A dual-court answer that puts an excluded player on a court.
C8_Witness ==
    /\ request.pending
    /\ response.status = 200
    /\ response.dual_court
    /\ Excluded \cap Range(response.player_ids) # {}

\* The excluded player the backfill ranks first: fewest games played, the
\* earlier in the roster among equals.
FirstExcludedInRanking ==
    CHOOSE p \in Excluded :
        \A q \in Excluded \ {p} :
            \/ CounterGet(TotalGamesToday, p) < CounterGet(TotalGamesToday, q)
            \/ /\ CounterGet(TotalGamesToday, p) = CounterGet(TotalGamesToday, q)
               /\ \E i, j \in DOMAIN ActivePlayers :
                     i < j /\ ActivePlayers[i] = p /\ ActivePlayers[j] = q

\* C9: single court, 5 active players, 2 of them excluded: the candidates
\* are the 3 others plus exactly the excluded player with fewer games; the
\* other excluded player is in no returned matchup.
C9_BackfillOnlyAsNeeded ==
    (/\ request.pending
     /\ response.status = 200
     /\ Len(ActivePlayers) = 5
     /\ Excluded \subseteq Range(ActivePlayers)
     /\ Cardinality(Excluded) = 2) =>
        ResponsePlayers(response)
            = (Range(ActivePlayers) \ Excluded) \cup {FirstExcludedInRanking}

\* C10: single court, at least 4 active players left after exclusion: no
\* excluded player is in the best pick or in an alternative, and every
\* player in them is active.
C10_ExcludedNotRecommended ==
    (/\ request.pending
     /\ response.status = 200
     /\ Len(ActivePlayers) < 8
     /\ Cardinality(Range(ActivePlayers) \ Excluded) >= 4) =>
        /\ ResponsePlayers(response) \cap Excluded = {}
        /\ ResponsePlayers(response) \subseteq Range(ActivePlayers)

\* Five active players, one of them excluded, a best pick and alternatives.
C10_Witness ==
    /\ request.pending
    /\ response.status = 200
    /\ Len(ActivePlayers) = 5
    /\ Cardinality(Excluded \cap Range(ActivePlayers)) = 1
    /\ Len(response.recommendations) = 3
    /\ matches # <<>>

\* C11: a request fails with "Not enough players" exactly when fewer than 4
\* players are active, whatever exclude_ids is: then the answer carries no
\* matchup; with 4 or more active players the answer is a 200 with a best
\* pick of four distinct active players.
C11_FailsIffFewerThanFourActive ==
    request.pending =>
        /\ response.status = 400 <=> Len(ActivePlayers) < 4
        /\ response.status = 400 => response = NotEnoughPlayers
        /\ Len(ActivePlayers) >= 4 =>
              /\ response.status = 200
              /\ Cardinality(Range(response.player_ids)) = 4
              /\ Range(response.player_ids) \subseteq Range(ActivePlayers)

\* Three active players and a non-empty exclude_ids: the request is refused.
C11_Witness ==
    /\ request.pending
    /\ Len(ActivePlayers) = 3
    /\ Excluded # {}
    /\ response = NotEnoughPlayers

\* The eligible players of the pending single-court request: the active
\* players that are not excluded.
EligiblePlayers == Range(ActivePlayers) \ Excluded

\* C(n, 4)
Choose4(n) == (n * (n - 1) * (n - 2) * (n - 3)) \div 24

\* A candidate as the set of its two teams, each the set of its two players.
TeamsOf(r) == {Range(r.team_a), Range(r.team_b)}

\* Every 2v2 candidate over a set of players.
CandidatesOver(S) ==
    {{A, X \ A} : <<X, A>> \in {y \in Subsets4(S) \X SUBSET S :
                                    y[2] \subseteq y[1] /\ Cardinality(y[2]) = 2}}

\* The Policy B score of a candidate under the counters c.
PolicyBScore(teams, c) ==
    LET a == CHOOSE t \in teams : TRUE
        b == CHOOSE t \in teams : t # a
    IN  ScoredMatchup(SortedList(a \cup b), SortedList(a), SortedList(b), c).score

\* C12: a single-court answer over n >= 4 eligible players lists exactly
\* min(10, 3 * C(n, 4)) alternatives, pairwise distinct candidates over the
\* eligible players, in non-decreasing order of score; no candidate left out
\* scores strictly lower than a listed one (than the last one, the highest
\* of the list in order); and the first alternative has the two teams of
\* the best pick.
C12_AlternativesAreTheTenBest ==
    (/\ request.pending
     /\ response.status = 200
     /\ ~response.dual_court
     /\ Cardinality(EligiblePlayers) >= 4) =>
        LET recs == response.recommendations
            n == Cardinality(EligiblePlayers)
            all == CandidatesOver(EligiblePlayers)
            listed == {TeamsOf(recs[k]) : k \in DOMAIN recs}
            today_counters == SessionCounters(GetSessionMatches(sessions, matches,
                                                  SessionIdForDate(today)))
            score == [t \in all |-> PolicyBScore(t, today_counters)]
        IN  /\ Len(recs) = (IF 3 * Choose4(n) < 10 THEN 3 * Choose4(n) ELSE 10)
            /\ Cardinality(all) = 3 * Choose4(n)
            /\ listed \subseteq all
            /\ Cardinality(listed) = Len(recs)
            /\ \A k \in 1..(Len(recs) - 1) :
                   ~ScoreLess(score[TeamsOf(recs[k + 1])], score[TeamsOf(recs[k])])
            /\ \A o \in all \ listed : ~ScoreLess(score[o], score[TeamsOf(recs[Len(recs)])])
            /\ TeamsOf(recs[1]) = TeamsOf(response)

\* Five eligible players in descending roster order and a match on file
\* today: 15 candidates, 10 of them listed.
C12_Witness ==
    /\ request.pending
    /\ response.status = 200
    /\ Cardinality(EligiblePlayers) = 5
    /\ Excluded = {}
    /\ ActivePlayers[1] > ActivePlayers[2]
    /\ Len(response.recommendations) = 10
    /\ TotalGamesToday # EmptyCounter

\* The match log without the matches of other sessions than today's.
TodayOnly(ms) == SelectSeq(ms, LAMBDA m : m.session_id = SessionIdForDate(today))

\* C13: the answer depends on the match log only through the matches of
\* today's session: it is the answer the same request gets when every match
\* of another session (and every other session) is taken off the files.
C13_OnlyCurrentSessionCounts ==
    request.pending =>
        response \in Responses(session_players,
                               GetOrCreateSessionForDate(SessionsOf(TodayOnly(matches)), today),
                               TodayOnly(matches), today, request.exclude_ids)

\* A request answered with one match of today and one of an earlier day on
\* file, the earlier one being of a partnership not played today.
C13_Witness ==
    /\ request.pending
    /\ response.status = 200
    /\ Len(matches) = 2
    /\ Len(TodayOnly(matches)) = 1
    /\ matches[1].session_id # SessionIdForDate(today)
    /\ matches[1].team1 # matches[2].team1

\* C14: a recommendation request persists and retains nothing: the roster,
\* next_game_number, the match log and the stored sessions are after the
\* call what they were before it.
C14_RequestPersistsNothing ==
    [][(~request.pending /\ request'.pending) =>
          UNCHANGED <<session_players, next_game_number, matches, sessions>>]_vars

\* The threads inside get_recommendations.
InFlight == {t \in Threads : threads[t] # IdleThread}

\* C15: at most one recommendation request is in flight at a time: while a
\* thread is between reading the roster and emitting its response, no other
\* thread is inside the handler.
C15_OneRequestInFlight == Cardinality(InFlight) <= 1

\* The names a team of a request body holds (none when it is not a list).
TeamNames(t) == IF t.kind = "list" THEN t.items ELSE <<>>

\* A body with a team missing, a team that has not exactly 2 players, or
\* 4 named players that are not pairwise distinct.
BadTeams(data) ==
    \/ data.team1.kind = "null" \/ data.team2.kind = "null"
    \/ Len(TeamNames(data.team1)) # 2 \/ Len(TeamNames(data.team2)) # 2
    \/ \E i, j \in 1..4 :
          i # j /\ (TeamNames(data.team1) \o TeamNames(data.team2))[i]
                    = (TeamNames(data.team1) \o TeamNames(data.team2))[j]

\* C17: record_match answers every body with bad teams by an error, and
\* then leaves next_game_number, the match log and the sessions as they
\* were; every match it appends to the log has four distinct players.
C17_BadTeamsRejected ==
    [][(~request.pending /\ request'.pending /\ "json" \in DOMAIN request') =>
          /\ BadTeams(request'.json) =>
                /\ response'.status = 400
                /\ UNCHANGED <<next_game_number, matches, sessions>>
          /\ \A i \in DOMAIN matches' \ DOMAIN matches :
                Cardinality(Range(matches'[i].team1) \cup Range(matches'[i].team2)) = 4
      ]_vars

\* A body naming player 2 in both teams was refused, after an earlier body
\* was recorded as a match of today.
C17_Witness ==
    /\ request.pending
    /\ "json" \in DOMAIN request
    /\ request.json.team1 = JsonList(<<1, 2>>)
    /\ request.json.team2 = JsonList(<<2, 3>>)
    /\ response.status = 400
    /\ Len(matches) = 1
    /\ matches[1].session_id = SessionIdForDate(today)
    /\ next_game_number = 2


\* The splits scored by the two enumerators, in the order they are scored:
\* each as the set of its two teams.
PolicyASplits ==
    LET sm == ScoredMatchups(players)
    IN  [k \in DOMAIN sm |-> {Range(sm[k][1]), Range(sm[k][2])}]

PolicyBSplits ==
    LET all == AllMatchups(candidates,
                   SessionCounters(GetSessionMatches(sessions, matches,
                                                     SessionIdForDate(today))))
    IN  [k \in DOMAIN all |-> TeamsOf(all[k])]

\* The list splits holds every split of every four players of S exactly
\* `times` times and nothing else.
EnumeratesEach(splits, S, times) ==
    LET over == CandidatesOver(S)
    IN  /\ \A c \in over :
               Cardinality({k \in DOMAIN splits : splits[k] = c}) = times
        /\ \A k \in DOMAIN splits : splits[k] \in over
        /\ Len(splits) = times * 3 * Choose4(Cardinality(S))

\* Two calls for the same split differ in the order of the two teams.
TeamsSwapped(sm) ==
    \A k, l \in DOMAIN sm :
        (k # l /\ Range(sm[k][1]) \in {Range(sm[l][1]), Range(sm[l][2])}
               /\ Range(sm[k][2]) \in {Range(sm[l][1]), Range(sm[l][2])}) =>
            (sm[k][1] = sm[l][2] /\ sm[k][2] = sm[l][1])

\* C22: each enumerator (the loop of generate_matchup and
\* generate_matchup_for_players) scores, for every four of the n distinct
\* players, the three splits, each exactly once: 3 * C(n,4) candidates, each
\* made of the members of its four.
C22_EachSplitScoredOnce ==
    /\ (picked.called /\ IsInjective(candidates)) =>
           EnumeratesEach(PolicyBSplits, Range(candidates), 1)
    /\ (gen = "ready" /\ last_call.op = "generate_matchup") =>
           EnumeratesEach(PolicyASplits, Range(players), 1)

\* C22 (amended): generate_matchup_for_players scores each of the three
\* splits of every four players exactly once (3 * C(n,4) candidates); the
\* loop of generate_matchup scores each split exactly twice, once for each
\* order of its two teams (6 * C(n,4) calls of _score_matchup); every
\* candidate is made of the members of its four.
C22_SplitsScoredOnceOrTwice ==
    /\ (picked.called /\ IsInjective(candidates)) =>
           EnumeratesEach(PolicyBSplits, Range(candidates), 1)
    /\ (gen = "ready" /\ last_call.op = "generate_matchup") =>
           /\ EnumeratesEach(PolicyASplits, Range(players), 2)
           /\ TeamsSwapped(ScoredMatchups(players))

C22_Witness ==
    /\ picked.called
    /\ gen = "ready"
    /\ last_call.op = "generate_matchup"
    /\ Len(players) = 5
    /\ candidates = players
    /\ Len(PolicyBSplits) = 15
    /\ Len(PolicyASplits) = 30

\* The counters the live application recounts from the matches ms of the
\* current session.
LiveCounters(ss, ms) == SessionCounters(GetSessionMatches(ss, ms, SessionIdForDate(today)))

\* 1 when the condition holds, else 0.
OneIf(b) == IF b THEN 1 ELSE 0

\* The generator's counters after a round (team1, team2) are the ones before
\* it plus one for the two team pairs, the four cross pairs and the players
\* sitting out, and unchanged elsewhere.
GeneratorRoundAddsOne(team1, team2) ==
    LET four == {team1[1], team1[2], team2[1], team2[2]}
        team_pairs == {{team1[1], team1[2]}, {team2[1], team2[2]}}
        cross_pairs == {{a, b} : <<a, b>> \in Range(team1) \X Range(team2)}
    IN  /\ \A k \in PairKeys :
               /\ partnership_count'[k] =
                      partnership_count[k] + OneIf({k[1], k[2]} \in team_pairs)
               /\ opponent_count'[k] =
                      opponent_count[k] + OneIf({k[1], k[2]} \in cross_pairs)
        /\ \A p \in Names :
               sitout_count'[p] =
                   sitout_count[p] + OneIf(p \in Range(players) \ four)

\* The recounted partnership and games-played counts after a match m was
\* recorded are the ones before it plus one for the two teams and the four
\* players, and unchanged elsewhere.
LiveRoundAddsOne(m) ==
    LET before == LiveCounters(sessions, matches)
        after == LiveCounters(sessions', matches')
    IN  /\ \A key \in {{a, b} : a, b \in Names} :
               CounterGet(after.partnership_counts, key) =
                   CounterGet(before.partnership_counts, key)
                   + OneIf(key \in {Range(m.team1), Range(m.team2)})
        /\ \A p \in Names :
               CounterGet(after.total_games, p) =
                   CounterGet(before.total_games, p)
                   + OneIf(p \in Range(m.team1) \cup Range(m.team2))

\* No counter of the generator or of the live recount is smaller after the
\* step than before it.
NoCounterDecreases ==
    LET before == LiveCounters(sessions, matches)
        after == LiveCounters(sessions', matches')
    IN  /\ \A k \in PairKeys :
               /\ partnership_count'[k] >= partnership_count[k]
               /\ opponent_count'[k] >= opponent_count[k]
        /\ \A p \in Names :
               /\ sitout_count'[p] >= sitout_count[p]
               /\ CounterGet(after.total_games, p) >= CounterGet(before.total_games, p)
        /\ \A key \in {{a, b} : a, b \in Names} :
               CounterGet(after.partnership_counts, key)
                   >= CounterGet(before.partnership_counts, key)

\* C23: recording one round adds exactly 1 to the partnership count of the
\* two team pairs, the opponent count of the four cross pairs, the
\* games-played count of the four players and the sit-out count of every
\* eligible player not among the four, and changes no other counter; no
\* step other than the full clear (reset_history) decreases a counter.
C23_RecordRoundAddsOne ==
    [][/\ (last_call'.op = "generate_matchup" /\ Len(applied') = Len(applied) + 1) =>
              GeneratorRoundAddsOne(last_matchup'[1], last_matchup'[2])
       /\ Len(matches') = Len(matches) + 1 =>
              LiveRoundAddsOne(matches'[Len(matches')])
       /\ last_call'.op # "reset_history" => NoCounterDecreases]_vars

C23_Witness ==
    /\ gen = "ready"
    /\ Len(players) = 5
    /\ Len(applied) = 2
    /\ \E p \in Range(players) : sitout_count[p] = 1
    /\ \E k \in PairKeys : opponent_count[k] = 1
    /\ Len(matches) = 2
    /\ response # NoResponse
    /\ response.status = 200
    /\ \E p \in Names : CounterGet(LiveCounters(sessions, matches).total_games, p) = 1

\* The ids of the matches on file.
StoredIds(ms) == {ms[i].match_id : i \in DOMAIN ms}

\* C24: edits of the match log are serializable: the write of update_match
\* loses no match recorded while the update ran and brings back no match
\* deleted while it ran, so the matches on file are the same before and
\* after the write.
C24_UpdateKeepsConcurrentEdits ==
    [][\A t \in Threads :
          (threads[t].pc = "update_match_save" /\ threads'[t].pc = "emit") =>
              StoredIds(matches') = StoredIds(matches)]_vars

\* The threads whose request was accepted and given a game number, the match
\* not yet saved.
Numbered == {t \in Threads : threads[t].pc = "save_match"}

\* C25: under any interleaving of record_match requests no two accepted
\* requests have the same game_number (in flight or on file), and
\* next_game_number is its initial value, one more than the matches first on
\* file, plus the number of requests accepted: those on file since and
\* those in flight.
C25_GameNumbersUnique ==
    /\ \A t, u \in Numbered : t # u => threads[t].game_number # threads[u].game_number
    /\ \A t \in Numbered, i \in DOMAIN matches :
           threads[t].game_number # matches[i].game_number
    /\ \A i, j \in DOMAIN matches : i # j => matches[i].game_number # matches[j].game_number
    /\ next_game_number = 1 + Len(matches) + Cardinality(Numbered)

C25_Witness ==
    /\ Numbered = {1, 2}
    /\ Len(matches) = 1
    /\ threads[1].game_number = 3
    /\ threads[2].game_number = 2
    /\ next_game_number = 4

\* The games played by the two players of a team, summed.
TeamGames(team, c) ==
    LET x == CHOOSE x \in team : TRUE
        y == CHOOSE y \in team : y # x
    IN  CounterGet(c.total_games, x) + CounterGet(c.total_games, y)

\* The tuple of a candidate, given as the set of its two teams: the larger
\* partnership count, the sum of the two, the difference of the games
\* played by the teams, the four players in ascending order.
PolicyBTuple(teams, c) ==
    LET a == CHOOSE t \in teams : TRUE
        b == CHOOSE t \in teams : t # a
        count_a == CounterGet(c.partnership_counts, a)
        count_b == CounterGet(c.partnership_counts, b)
    IN  <<IF count_a > count_b THEN count_a ELSE count_b,
          count_a + count_b,
          Abs(TeamGames(a, c) - TeamGames(b, c)),
          SortedList(a \cup b)>>

\* s comes before t in the lexicographic order of the tuples.
TupleLess(s, t) ==
    \/ s[1] < t[1]
    \/ s[1] = t[1] /\ s[2] < t[2]
    \/ s[1] = t[1] /\ s[2] = t[2] /\ s[3] < t[3]
    \/ s[1] = t[1] /\ s[2] = t[2] /\ s[3] = t[3] /\ ListLess(s[4], t[4])

\* C26: the best pick of generate_matchup_for_players is one of the
\* candidates, and no candidate over the players has a lexicographically
\* smaller tuple (max of the two partnership counts, their sum, difference
\* of the teams' games played, sorted four identifiers).
C26_BestPickIsLexMinimum ==
    (picked.called /\ picked.matchup # None /\ IsInjective(candidates)) =>
        LET c == SessionCounters(GetSessionMatches(sessions, matches,
                                                   SessionIdForDate(today)))
            all == CandidatesOver(Range(candidates))
            best == PolicyBTuple(TeamsOf(picked.matchup), c)
        IN  /\ TeamsOf(picked.matchup) \in all
            /\ \A o \in all : ~TupleLess(PolicyBTuple(o, c), best)

C26_Witness ==
    /\ picked.called
    /\ picked.matchup # None
    /\ Len(candidates) = 5
    /\ Len(matches) = 1
    /\ LET c == SessionCounters(GetSessionMatches(sessions, matches,
                                                  SessionIdForDate(today)))
           best == PolicyBTuple(TeamsOf(picked.matchup), c)
       IN  \E o \in CandidatesOver(Range(candidates)) :
               /\ PolicyBTuple(o, c)[1] = best[1]
               /\ PolicyBTuple(o, c)[2] = best[2]
               /\ PolicyBTuple(o, c)[3] > best[3]
               /\ ListLess(PolicyBTuple(o, c)[4], best[4])

\* The count of an unordered pair of players in a pair counter.
PairCount(counter, pair) ==
    LET lo == CHOOSE x \in pair : \A y \in pair : x <= y
        hi == CHOOSE x \in pair : \A y \in pair : x >= y
    IN  counter[<<lo, hi>>]

\* 100 * S + 5 * P + 1 * O for the candidate r of the generator's pool.
WeightedSum(r) ==
    LET team1 == Range(r.team1)
        team2 == Range(r.team2)
        sitting == Range(players) \ (team1 \cup team2)
        penalty == [p \in Names |->
                       IF sitout_count[p] = 0 THEN 0
                       ELSE IF sitout_count[p] = 1 THEN 10
                       ELSE 50 * (sitout_count[p] - 1)]
        S == SumOver(penalty, sitting)
        P == PairCount(partnership_count, team1) + PairCount(partnership_count, team2)
        O == SumOver([x \in team1 \X team2 |->
                         PairCount(opponent_count, {x[1], x[2]})], team1 \X team2)
    IN  100 * S + 5 * P + 1 * O

\* C27: the score of a candidate is 100 * S + 5 * P + 1 * O, with S the
\* penalties (0, 10, 50 * (count - 1)) of the pool's players outside the
\* candidate, P the partnership counts of the two teams and O the opponent
\* counts of the four cross pairs; two candidates with the same two teams,
\* in any order of the teams and of the players of a team, score the same.
C27_ScoreIsWeightedSum ==
    scored.called =>
        /\ scored.first.score = WeightedSum(scored.first)
        /\ scored.second.score = WeightedSum(scored.second)
        /\ ({Range(scored.first.team1), Range(scored.first.team2)}
               = {Range(scored.second.team1), Range(scored.second.team2)}) =>
              scored.first.score = scored.second.score

C27_Witness ==
    /\ scored.called
    /\ scored.first.team1 = <<1, 3>>
    /\ scored.first.team2 = <<2, 4>>
    /\ scored.second.team1 = <<4, 2>>
    /\ scored.second.team2 = <<3, 1>>
    /\ sitout_count[5] = 2
    /\ scored.second.score = 100 * 50 + 5 * 1 + 1 * 6

\* C28: after any sequence of save_match and delete_match, the clock never
\* running backwards, no two matches on file have the same match_id.
C28_MatchIdsUnique ==
    \A i, j \in DOMAIN matches : i # j => matches[i].match_id # matches[j].match_id

\* C29: under any interleaving of add_player, delete_player and
\* toggle_player_active requests no two players of the roster have the same
\* name, and the active pool lists no participant twice.
C29_RosterNamesUnique ==
    /\ \A i, j \in DOMAIN session_players :
           i # j => session_players[i].name # session_players[j].name
    /\ IsInjective(GetActivePlayers(session_players))

\* The step is thread t running the delete-session handler.
DeletesSession(t) ==
    /\ threads[t] = IdleThread
    /\ threads'[t].pc = "emit"
    /\ "handler" \in DOMAIN threads'[t]

\* C30: the delete-session request answers 404 only when no session of that
\* id existed before it, and then leaves sessions and matches as they were;
\* when the session existed, with or without matches, it answers success and
\* the session and all its matches are gone.
C30_NotFoundOnlyWhenAbsent ==
    [][\A t \in Threads :
          DeletesSession(t) =>
              LET session_id == threads'[t].session_id
                  status == threads'[t].response.status
              IN  /\ status = 404 =>
                         /\ session_id \notin DOMAIN sessions
                         /\ sessions' = sessions
                         /\ matches' = matches
                  /\ session_id \in DOMAIN sessions =>
                         /\ status = 200
                         /\ session_id \notin DOMAIN sessions'
                         /\ \A i \in DOMAIN matches' :
                                matches'[i].session_id # session_id]_vars

\* ------------------------------------------------------------------------
\* Totals of the generator's counters
\* ------------------------------------------------------------------------
\* The number of rounds applied in which the player p was on court.
RoundsPlayed(p) ==
    Cardinality({k \in 1..Len(applied) :
                    p \in PlayingPlayers(applied[k][1], applied[k][2])})

\* C31: after R rounds applied by generate_matchup from an empty history on
\* n distinct players, the partnership counts sum to 2R, the opponent counts
\* to 4R and the sit-out counts to (n-4)R, and for every player the sit-out
\* count plus the number of rounds played is R.
C31_CounterTotals ==
    gen = "ready" =>
        /\ SumOver(partnership_count, PairKeys) = 2 * Len(applied)
        /\ SumOver(opponent_count, PairKeys) = 4 * Len(applied)
        /\ SumOver(sitout_count, Names) = (Len(players) - 4) * Len(applied)
        /\ \A p \in Range(players) : sitout_count[p] + RoundsPlayed(p) = Len(applied)

\* Three rounds applied on six players: two players sit out each round.
C31_Witness ==
    /\ gen = "ready"
    /\ last_call.op = "generate_matchup"
    /\ Len(players) = 6
    /\ Len(applied) = 3
    /\ SumOver(sitout_count, Names) = 6
    /\ \E p \in Range(players) : sitout_count[p] >= 1 /\ RoundsPlayed(p) >= 1

\* ------------------------------------------------------------------------
\* Matches and sessions on file
\* ------------------------------------------------------------------------
\* The ids on file in matches.json.
IdsOnFile == {matches[i].match_id : i \in DOMAIN matches}

\* C32: after any sequence of save_match, delete_match and delete_session
\* calls, every stored match carries the session_id of an existing session
\* whose match_ids holds the match's id, every id in a session's match_ids is
\* the id of a stored match, and every stored match is among the matches
\* get_session_matches returns for its session.
C32_MatchesAndSessionsAgree ==
    /\ \A i \in DOMAIN matches :
          /\ matches[i].session_id \in DOMAIN sessions
          /\ matches[i].match_id \in Range(sessions[matches[i].session_id].match_ids)
          /\ matches[i] \in Range(GetSessionMatches(sessions, matches, matches[i].session_id))
    /\ \A session_id \in DOMAIN sessions :
          Range(sessions[session_id].match_ids) \subseteq IdsOnFile

\* ------------------------------------------------------------------------
\* Live play
\* ------------------------------------------------------------------------
\* The request on hand is answered with a best pick that has player p in it.
InBestPick(p) ==
    /\ response.status = 200
    /\ "team_a" \in DOMAIN response
    /\ p \in Range(response.team_a) \cup Range(response.team_b)

\* The rounds by which a player left out is proposed again, whatever was
\* played before.
LiveHorizon == 8

\* C33: in single-court live mode with 5 to 7 active players and no
\* exclusions, when every best pick is recorded in the current session before
\* the next request, every active player is in a best pick again and again:
\* from any point of the session on, some later best pick includes the
\* player.
C33_EveryPlayerIsPicked ==
    \A p \in Names :
        (p \in Range(ActivePlayers) /\ Len(matches) <= LiveRounds - LiveHorizon)
            ~> InBestPick(p)

\* Seven players, five matches played as proposed, and the seventh player,
\* who has not played yet, is in the best pick.
C33_Witness ==
    /\ Len(ActivePlayers) = 7
    /\ Len(matches) = 5
    /\ \A i \in DOMAIN matches : 7 \notin Range(matches[i].team1 \o matches[i].team2)
    /\ InBestPick(7)

\* ------------------------------------------------------------------------
\* Opponents and the live recommendation
\* ------------------------------------------------------------------------
\* How often the pair has been a team in the log, and how many matches of
\* the log the player has played.
TimesPartnered(log, pair) ==
    Cardinality({i \in DOMAIN log : Range(log[i].team1) = pair})
    + Cardinality({i \in DOMAIN log : Range(log[i].team2) = pair})

TimesPlayed(log, p) ==
    Cardinality({i \in DOMAIN log : p \in Range(log[i].team1 \o log[i].team2)})

SameTeamsAndGames(log1, log2) ==
    /\ \A pair \in {{p, q} : p, q \in Names} :
          TimesPartnered(log1, pair) = TimesPartnered(log2, pair)
    /\ \A p \in Names : TimesPlayed(log1, p) = TimesPlayed(log2, p)

\* The pairs of teams that met in the log.
Oppositions(log) == {{Range(log[i].team1), Range(log[i].team2)} : i \in DOMAIN log}

\* C34: the live recommendation does not depend on who faced whom nor on who
\* sat out: the answer to a request is the answer the same request gets on
\* any log of the current session that gives every pair the same partnership
\* count and every player the same number of games.
C34_OpponentsDoNotMatter ==
    (request.pending /\ response # NoResponse) =>
        \A other \in OpponentLogs :
            SameTeamsAndGames(other, matches) =>
                response \in Responses(session_players, SessionsOf(other), other, today,
                                       request.exclude_ids)

\* A recommendation made on a log for which another log has the same teams
\* and games with the teams paired differently.
C34_Witness ==
    /\ request.pending
    /\ response.status = 200
    /\ \E other \in OpponentLogs :
          /\ SameTeamsAndGames(other, matches)
          /\ Oppositions(other) # Oppositions(matches)

\* ------------------------------------------------------------------------
\* A pool of exactly four players
\* ------------------------------------------------------------------------
\* The history in which a and b have partnered twice, c and d once and every
\* other counter is zero.
TwiceAndOnce(h, a, b, c, d) ==
    /\ h.partnership_count =
           [k \in PairKeys |-> IF k = GetPairKey(a, b) THEN 2
                               ELSE IF k = GetPairKey(c, d) THEN 1 ELSE 0]
    /\ h.opponent_count = EmptyPairCount
    /\ h.sitout_count = EmptyPlayerCount

\* C35: generate_matchup on a pool of exactly four players with all opponent
\* counts zero selects a split whose partnership term is the minimum of the
\* three splits; when A and B have partnered twice, C and D once and every
\* other counter is zero, the selection has partnership term 0 and is never
\* (A,B) against (C,D).
C35_FourPlayersLeastPartnered ==
    [][(/\ last_call'.op = "generate_matchup"
        /\ Len(applied') = Len(applied) + 1
        /\ Cardinality(Range(players)) = 4 /\ Len(players) = 4
        /\ opponent_count = EmptyPairCount) =>
          LET selected == last_matchup'
              term(m) == partnership_count[GetPairKey(m[1][1], m[1][2])]
                         + partnership_count[GetPairKey(m[2][1], m[2][2])]
          IN  /\ \A m \in PolicyACandidates(players) : term(selected) <= term(m)
              /\ \A a, b, c, d \in Range(players) :
                    (Cardinality({a, b, c, d}) = 4 /\ TwiceAndOnce(CurrentHistory, a, b, c, d)) =>
                        /\ term(selected) = 0
                        /\ {Range(selected[1]), Range(selected[2])} # {{a, b}, {c, d}}
      ]_vars

\* The round selected on the list 1, 2, 3, 4 when 1 and 2 had partnered
\* twice and 3 and 4 once: the counters are those of that history with the
\* round 1,3 v 2,4 recorded.
C35_Witness ==
    /\ players = <<1, 2, 3, 4>>
    /\ applied = << << <<1, 3>>, <<2, 4>> >> >>
    /\ last_matchup = << <<1, 3>>, <<2, 4>> >>
    /\ partnership_count[<<1, 2>>] = 2
    /\ partnership_count[<<3, 4>>] = 1
    /\ partnership_count[<<1, 3>>] = 1
    /\ partnership_count[<<2, 4>>] = 1
    /\ partnership_count[<<1, 4>>] = 0
    /\ partnership_count[<<2, 3>>] = 0
    /\ \A k \in FourPairKeys : opponent_count[k] = (IF k \in {<<1, 3>>, <<2, 4>>} THEN 0 ELSE 1)

\* C36: on a list of four players A, B, C, D in alphabetical order and an
\* empty history, all three splits score 0 and the first generate_matchup
\* returns team (A,B) against team (C,D).
C36_FirstRoundIsFirstSplit ==
    [][(/\ last_call'.op = "generate_matchup"
        /\ Len(applied') = Len(applied) + 1
        /\ Len(players) = 4
        /\ \A i \in 1..3 : players[i] < players[i + 1]
        /\ CurrentHistory = EmptyHistory) =>
          /\ \A m \in Matchups(Range(players)) :
                ScoreMatchup(CurrentHistory, players, m[1], m[2]) = 0
          /\ Cardinality(Matchups(Range(players))) = 3
          /\ last_matchup' = << <<players[1], players[2]>>, <<players[3], players[4]>> >>
      ]_vars

\* The first round of a generator constructed on the list 2, 3, 5, 7.
C36_Witness ==
    /\ gen = "ready"
    /\ players = <<2, 3, 5, 7>>
    /\ applied = << << <<2, 3>>, <<5, 7>> >> >>
    /\ last_matchup = << <<2, 3>>, <<5, 7>> >>
    /\ last_call.op = "generate_matchup"
    /\ \A k \in PairKeys : partnership_count[k] = (IF k \in {<<2, 3>>, <<5, 7>>} THEN 1 ELSE 0)

====
